---------------------------- MODULE Spec2Model ----------------------------
(***************************************************************************)
(* bigiron-virt: the provisioning pipeline of a single hypervisor host.    *)
(*                                                                         *)
(* The state is the host's file system (the image repository, the instance *)
(* store), the hypervisor's running domains, and the invocations of the    *)
(* library's operations (add_image, create_machine, destroy_machine), each *)
(* with its position in the code and its local variables.                  *)
(***************************************************************************)
EXTENDS Naturals, Sequences, FiniteSets, TLC

(***************************************************************************)
(* Bounds of the model.                                                    *)
(***************************************************************************)
\* invocations a behaviour holds
MaxCalls == 2
\* a source image is read in this many buffers
MaxChunks == 2

Calls == 1..MaxCalls

\* a path with no file, and a file holding `content`
NoFile == [exists |-> FALSE, data |-> <<>>]
File(content) == [exists |-> TRUE, data |-> content]

(***************************************************************************)
(* hex::encode and Sha256.  A digest is a number; the hasher's state is    *)
(* the number of the data fed so far, a positional code of the buffers, so *)
(* that two different byte streams never share a digest (SHA-256 without   *)
(* collisions).  hex::encode writes each byte as two lowercase digits; a   *)
(* string is the tuple of its characters.                                  *)
(***************************************************************************)
HexDigits == <<"0", "1", "2", "3", "4", "5", "6", "7",
               "8", "9", "a", "b", "c", "d", "e", "f">>

\* hex::encode of one byte
HexByte(b) == <<HexDigits[(b \div 16) + 1], HexDigits[(b % 16) + 1]>>

\* hex::encode of a two-byte digest value, most significant byte first
HexEncode(d) == HexByte((d \div 256) % 256) \o HexByte(d % 256)

\* Sha256::new()
Sha256New == 1

\* h.write_all(&buf[..n])
Sha256Update(h, chunk) == h * 3 + chunk

RECURSIVE Sha256Of(_)
\* the digest of a whole content
Sha256Of(content) ==
    IF content = <<>> THEN Sha256New
    ELSE Sha256Update(Sha256Of(SubSeq(content, 1, Len(content) - 1)),
                      content[Len(content)])

\* hex::encode(h.finalize())
HexDigest(h) == HexEncode(h)

(***************************************************************************)
(* Inputs: the source images of the host, source locators and digests.     *)
(* A buffer's contents are 1 or 2.  Two images of MaxChunks buffers differ *)
(* in their last buffer; a third path holds no file.                       *)
(***************************************************************************)
SrcPaths == {"/img/a", "/img/b", "/img/none"}

\* the source images: path -> File(content) or NoFile
srcfs ==
    [p \in SrcPaths |->
        CASE p = "/img/a" -> File([i \in 1..MaxChunks |-> 1])
          [] p = "/img/b" -> File([i \in 1..MaxChunks |-> IF i = MaxChunks THEN 2 ELSE 1])
          [] OTHER -> NoFile]

\* a parsed Url
Urls == [scheme : {"file"}, path : SrcPaths] \cup {[scheme |-> "http", path |-> "/img/a"]}

\* the digest strings a caller passes: the digests of the source images
Hashes == {HexDigest(Sha256Of(srcfs[p].data)) : p \in {q \in SrcPaths : srcfs[q].exists}}

(***************************************************************************)
(* Option<T>: None is the empty sequence, Some(x) the sequence of x alone.  *)
(***************************************************************************)
None == <<>>
Some(x) == <<x>>
IsSome(o) == Len(o) = 1
Unwrap(o) == o[1]

(***************************************************************************)
(* api::models::to_size.  A size string is the tuple of its characters.    *)
(* The result is Ok(value), Err (the magnitude does not parse) or a panic  *)
(* (a slice out of the string's range).                                    *)
(***************************************************************************)
Digits == <<"0", "1", "2", "3", "4", "5", "6", "7", "8", "9">>

IsDigit(ch) == \E i \in 1..10 : Digits[i] = ch

DigitVal(ch) == (CHOOSE i \in 1..10 : Digits[i] = ch) - 1

(***************************************************************************)
(* A u64 is the sequence of its 16-bit limbs, least significant first and  *)
(* without leading zero limbs: the values of to_size exceed the checker's  *)
(* own integers.                                                           *)
(***************************************************************************)
RECURSIVE BigMulAdd(_, _, _)
\* x * k + carry
BigMulAdd(x, k, carry) ==
    IF x = <<>>
    THEN IF carry = 0 THEN <<>>
         ELSE <<carry % 65536>> \o BigMulAdd(<<>>, k, carry \div 65536)
    ELSE LET t == x[1] * k + carry
         IN  <<t % 65536>> \o BigMulAdd(Tail(x), k, t \div 65536)

RECURSIVE BigNorm(_)
\* x without its leading zero limbs
BigNorm(x) ==
    IF x # <<>> /\ x[Len(x)] = 0 THEN BigNorm(SubSeq(x, 1, Len(x) - 1)) ELSE x

\* whether x fits a u64
FitsU64(x) == Len(x) <= 4

\* x modulo 2^64
WrapU64(x) == IF FitsU64(x) THEN x ELSE BigNorm(SubSeq(x, 1, 4))

RECURSIVE DecimalVal(_)
\* the value of a string of decimal digits
DecimalVal(chars) ==
    IF chars = <<>> THEN <<>>
    ELSE BigMulAdd(DecimalVal(SubSeq(chars, 1, Len(chars) - 1)), 10,
                   DigitVal(chars[Len(chars)]))

\* num.parse::<u64>(): Some(value) for a non-empty string of digits within u64
ParseU64(chars) ==
    IF chars # <<>> /\ (\A i \in 1..Len(chars) : IsDigit(chars[i]))
                    /\ FitsU64(DecimalVal(chars))
    THEN Some(DecimalVal(chars))
    ELSE None

RECURSIVE MulPow(_, _, _)
\* scalar * co.pow(exp), for exponents whose power fits a u64
MulPow(scalar, co, exp) ==
    IF exp = 0 THEN scalar ELSE MulPow(BigMulAdd(scalar, co, 0), co, exp - 1)

\* the exponent to_size matches on the unit letter
SizeExp(last) ==
    CASE last \in {"T", "t"} -> 3
      [] last \in {"G", "g"} -> 3
      [] last \in {"M", "m"} -> 2
      [] last \in {"K", "k"} -> 1
      [] OTHER -> 0

\* Ok(value), Err (the magnitude does not parse), "panic" (a slice outside
\* the string), or "overflow" with the wrapped value (the multiplication
\* overflows: a panic in a debug build, the wrapped value in a release build)
to_size(s) ==
    IF Len(s) < 2
    THEN [kind |-> "panic", val |-> <<>>]
    ELSE LET binary == s[Len(s)] = "i"
             last == IF binary THEN s[Len(s) - 1] ELSE s[Len(s)]
             co == IF binary THEN 1024 ELSE 1000
             num == IF binary THEN SubSeq(s, 1, Len(s) - 2) ELSE SubSeq(s, 1, Len(s) - 1)
             scalar == ParseU64(num)
             product == MulPow(Unwrap(scalar), co, SizeExp(last))
         IN  IF ~IsSome(scalar) THEN [kind |-> "Err", val |-> <<>>]
             ELSE IF FitsU64(product) THEN [kind |-> "Ok", val |-> product]
             ELSE [kind |-> "overflow", val |-> WrapU64(product)]

(***************************************************************************)
(* mac::Mac                                                                *)
(***************************************************************************)

\* the outcomes of Mac::gen the model draws from: the ends of the ranges of
\* the three random octets
MacPool ==
    {m \in {<<0, 22, 62, 0, 0, 0>>, <<0, 22, 62, 126, 254, 254>>} :
        /\ m[1] = 0 /\ m[2] = 22 /\ m[3] = 62
        /\ m[4] \in 0..126 /\ m[5] \in 0..254 /\ m[6] \in 0..254}

RECURSIVE JoinColon(_)
\* join(":") of a sequence of strings
JoinColon(parts) ==
    IF Len(parts) = 0 THEN <<>>
    ELSE IF Len(parts) = 1 THEN parts[1]
    ELSE parts[1] \o <<":">> \o JoinColon(Tail(parts))

\* impl Display for Mac
MacToString(m) == JoinColon([i \in 1..Len(m) |-> HexByte(m[i])])

RECURSIVE Split(_)
\* s.split(":"): the groups between the colons, empty ones included
Split(s) ==
    IF \A i \in 1..Len(s) : s[i] # ":" THEN <<s>>
    ELSE LET at == CHOOSE i \in 1..Len(s) : s[i] = ":" /\ \A j \in 1..(i - 1) : s[j] # ":"
         IN  <<SubSeq(s, 1, at - 1)>> \o Split(SubSeq(s, at + 1, Len(s)))

\* hex::decode: the bytes of an even number of hex digits of either case,
\* None for anything else
HexDecode(o) ==
    LET upper == <<"0", "1", "2", "3", "4", "5", "6", "7",
                   "8", "9", "A", "B", "C", "D", "E", "F">>
        val(ch) == (CHOOSE k \in 1..16 : HexDigits[k] = ch \/ upper[k] = ch) - 1
        ishex(ch) == \E k \in 1..16 : HexDigits[k] = ch \/ upper[k] = ch
    IN  IF Len(o) % 2 = 0 /\ \A i \in 1..Len(o) : ishex(o[i])
        THEN Some([i \in 1..(Len(o) \div 2) |-> val(o[2 * i - 1]) * 16 + val(o[2 * i])])
        ELSE None

RECURSIVE Flatten(_)
\* .flatten().flatten() over the decoded groups: a group that did not decode
\* yields nothing, the others their bytes
Flatten(groups) ==
    IF groups = <<>> THEN <<>>
    ELSE (IF IsSome(HexDecode(groups[1])) THEN Unwrap(HexDecode(groups[1])) ELSE <<>>)
         \o Flatten(Tail(groups))

\* impl FromStr for Mac: Ok(mac) when the bytes collected are exactly six
Mac_from_str(s) ==
    LET v == Flatten(Split(s)) IN
    IF Len(v) = 6 THEN [kind |-> "Ok", val |-> v]
    ELSE [kind |-> "MacParseError", val |-> <<>>]

\* trim_start_matches that strips nothing
trim_start_matches_nothing(s, ch) == s

RECURSIVE trim_start_matches(_, _)
\* s.trim_start_matches(ch)
trim_start_matches(s, ch) ==
    IF s # <<>> /\ s[1] = ch THEN trim_start_matches(Tail(s), ch) ELSE s

\* Mac::to_ipv6_slaac_addr
to_ipv6_slaac_addr(octets) ==
    LET flipped == IF (octets[1] \div 2) % 2 = 1 THEN octets[1] ELSE octets[1] + 2
        addr == <<<<flipped, octets[2]>>, <<octets[3], 255>>,
                  <<254, octets[4]>>, <<octets[5], octets[6]>>>>
        s == JoinColon([i \in 1..4 |-> HexByte(addr[i][1]) \o HexByte(addr[i][2])])
    IN  <<"f", "e", "8", "0", ":", ":">> \o trim_start_matches(s, "0")

(***************************************************************************)
(* api::models: the machine specification                                  *)
(***************************************************************************)
SLAAC == [kind |-> "IPv6SLAAC", addr |-> "", gateway |-> "", nameservers |-> <<>>]

IPv4Static(addr, gateway, nameservers) ==
    [kind |-> "IPv4Static", addr |-> addr, gateway |-> gateway, nameservers |-> nameservers]

\* a declared interface: macaddress is skipped by serde and starts empty
Nic(kind, parent, address) ==
    [kind |-> kind, parent |-> parent, address |-> address, macaddress |-> <<>>]

StorageKind(kind, path) == [kind |-> kind, path |-> path]

(***************************************************************************)
(* network_config: the Ethernet structure and its YAML form.               *)
(* A document is the sequence of its lines; a line has its depth, its key  *)
(* and its value (None for a mapping or list that follows on the next      *)
(* lines; a list item has the key "-").                                    *)
(***************************************************************************)
Line(ind, key, val) == [ind |-> ind, key |-> key, val |-> val]

\* Ethernet::new_with_mac
new_with_mac(mac) ==
    [match |-> [macaddress |-> Some(mac), name |-> None, driver |-> None],
     dhcp4 |-> None, dhcp6 |-> None, addresses |-> None, gateway4 |-> None,
     gateway6 |-> None, nameservers |-> None, routes |-> None,
     wakeonlan |-> None, set_name |-> None]

\* Ethernet::try_from that writes the nameservers block of every static interface
Ethernet_try_from_always_nameservers(nic) ==
    LET s == new_with_mac(nic.macaddress) IN
    IF nic.address.kind = "IPv6SLAAC"
    THEN [s EXCEPT !.dhcp6 = Some(TRUE)]
    ELSE [s EXCEPT !.addresses = Some(<<nic.address.addr>>),
                   !.gateway4 = Some(nic.address.gateway),
                   !.nameservers = Some([search |-> None,
                                         addresses |-> nic.address.nameservers])]

\* impl TryFrom<&Nic> for Ethernet
Ethernet_try_from(nic) ==
    LET s == new_with_mac(nic.macaddress) IN
    IF nic.address.kind = "IPv6SLAAC"
    THEN [s EXCEPT !.dhcp6 = Some(TRUE)]
    ELSE [s EXCEPT !.addresses = Some(<<nic.address.addr>>),
                   !.gateway4 = Some(nic.address.gateway),
                   !.nameservers = IF nic.address.nameservers # <<>>
                                   THEN Some([search |-> None,
                                              addresses |-> nic.address.nameservers])
                                   ELSE None]

\* a scalar field with skip_serializing_if = "Option::is_none"
YamlOpt(ind, key, o) == IF IsSome(o) THEN <<Line(ind, key, o)>> ELSE <<>>

\* a list of scalars
YamlList(ind, key, items) ==
    <<Line(ind, key, None)>> \o [i \in 1..Len(items) |-> Line(ind, "-", Some(items[i]))]

\* Serialize for Ethernet: the fields in their declared order, absent ones skipped
YamlEthernet(ind, e) ==
    <<Line(ind, "match", None)>>
    \o YamlOpt(ind + 1, "macaddress", e.match.macaddress)
    \o YamlOpt(ind + 1, "name", e.match.name)
    \o YamlOpt(ind + 1, "driver", e.match.driver)
    \o YamlOpt(ind, "dhcp4", e.dhcp4)
    \o YamlOpt(ind, "dhcp6", e.dhcp6)
    \o (IF IsSome(e.addresses) THEN YamlList(ind, "addresses", Unwrap(e.addresses)) ELSE <<>>)
    \o YamlOpt(ind, "gateway4", e.gateway4)
    \o YamlOpt(ind, "gateway6", e.gateway6)
    \o (IF IsSome(e.nameservers)
        THEN <<Line(ind, "nameservers", None)>>
             \o (IF IsSome(Unwrap(e.nameservers).search)
                 THEN YamlList(ind + 1, "search", Unwrap(Unwrap(e.nameservers).search))
                 ELSE <<>>)
             \o YamlList(ind + 1, "addresses", Unwrap(e.nameservers).addresses)
        ELSE <<>>)
    \o YamlOpt(ind, "wakeonlan", e.wakeonlan)
    \o YamlOpt(ind, "set-name", e.set_name)

\* format!("id{}", i)
EtherKey(i) == "id" \o ToString(i)

RECURSIVE YamlEthernets(_, _)
\* the entries of the ethernets map, in the order `order` (the map's iteration
\* order) lists their indices
YamlEthernets(ethers, order) ==
    IF order = <<>> THEN <<>>
    ELSE <<Line(2, EtherKey(order[1] - 1), None)>>
         \o YamlEthernet(3, ethers[order[1]])
         \o YamlEthernets(ethers, Tail(order))

\* serde_yaml::to_writer(&mut buf, &conf)
YamlNetworkConfig(ethers, order) ==
    <<Line(0, "network", None), Line(1, "version", Some(2))>>
    \o (IF Len(ethers) = 0
        THEN <<Line(1, "ethernets", Some("{}"))>>
        ELSE <<Line(1, "ethernets", None)>> \o YamlEthernets(ethers, order))

\* the orders a HashMap of n entries can be iterated in
Orders(n) == {o \in [1..n -> 1..n] : \A i, j \in 1..n : i # j => o[i] # o[j]}

\* build_net_config, with the iteration order of the map
build_net_config(nics, order) ==
    IF ~IsSome(nics) THEN <<>>
    ELSE YamlNetworkConfig([i \in 1..Len(Unwrap(nics)) |-> Ethernet_try_from(Unwrap(nics)[i])],
                           order)

(***************************************************************************)
(* libvirt::DomainBuilder.  network_xml and block_device_xml are the       *)
(* sequences of the device fragments pushed onto them; the rendered        *)
(* document lists its devices in the order of the template.                *)
(***************************************************************************)
Device(elem, type, source, target, mac) ==
    [elem |-> elem, type |-> type, source |-> source, target |-> target, mac |-> mac]

\* DomainBuilder::new
DomainBuilder_new(name, cpus, memory_bytes, image_file) ==
    [name |-> name, cpus |-> cpus, memory_bytes |-> memory_bytes,
     image_file |-> image_file, network_xml |-> <<>>, block_device_xml |-> <<>>,
     metadata_api |-> FALSE]

\* the builder before DomainBuilder::new has run
NoBuilder == DomainBuilder_new("", 0, <<>>, "")

add_bridged_interface(d, name, macaddr) ==
    [d EXCEPT !.network_xml = Append(@, Device("interface", "bridge", name, <<>>, macaddr))]

add_macvtap_interface(d, name, macaddr) ==
    [d EXCEPT !.network_xml = Append(@, Device("interface", "direct", name, <<>>, macaddr))]

\* add_storage that puts its fragment before the ones already there
add_storage_prepends(d, path, target_dev, disk_type) ==
    [d EXCEPT !.block_device_xml = <<Device("disk", disk_type, path, target_dev, <<>>)>> \o @]

add_storage(d, path, target_dev, disk_type) ==
    [d EXCEPT !.block_device_xml = Append(@, Device("disk", disk_type, path, target_dev, <<>>))]

add_file_backed_storage(d, path, target_dev) == add_storage(d, path, target_dev, "file")

add_block_backed_storage(d, path, target_dev) == add_storage(d, path, target_dev, "block")

add_cdrom_from_iso(d, iso_file_path) ==
    [d EXCEPT !.block_device_xml =
        Append(@, Device("cdrom", "file", iso_file_path, <<"h", "d", "c">>, <<>>))]

\* DomainBuilder::render
render(d) ==
    [name |-> d.name, memory |-> d.memory_bytes, vcpu |-> d.cpus,
     devices |-> <<Device("disk", "file", d.image_file, <<"v", "d", "a">>, <<>>)>>
                 \o d.block_device_xml
                 \o <<Device("serial", "pty", "/dev/pts/0", <<>>, <<>>),
                      Device("input", "keyboard", "", <<>>, <<>>),
                      Device("input", "mouse", "", <<>>, <<>>)>>
                 \o d.network_xml
                 \o <<Device("memballoon", "virtio", "", <<>>, <<>>)>>,
     sysinfo |-> IF d.metadata_api THEN "BigIron" ELSE ""]

(***************************************************************************)
(* The attachment of storage devices in create_machine.                    *)
(***************************************************************************)
\* the last index the storage loop accepts
MaxDriveIndex == 24

\* "b" in ASCII
drive_letter_start == 98

Letters == <<"a", "b", "c", "d", "e", "f", "g", "h", "i", "j", "k", "l", "m",
             "n", "o", "p", "q", "r", "s", "t", "u", "v", "w", "x", "y", "z">>

\* std::str::from_utf8 of one byte in 'a'..'z'
Chr(code) == Letters[code - 96]

\* target_name with the letters counted from the boot disk's
target_name_from_boot_disk(i) == <<Chr(118), Chr(100), Chr(drive_letter_start - 1 + i)>>

\* std::str::from_utf8(&[118, 100, drive_letter_start + i_u8])
target_name(i) == <<Chr(118), Chr(100), Chr(drive_letter_start + i)>>

\* the storage loop with the count checked before the first attachment
attach_storages_checked_first(d, storages, i) ==
    IF Len(storages) > MaxDriveIndex + 1
    THEN [d |-> d, panic |-> TRUE]
    ELSE [d |-> [d EXCEPT !.block_device_xml =
                    @ \o [k \in 1..Len(storages) |->
                            Device("disk", IF storages[k].kind = "File" THEN "file" ELSE "block",
                                   storages[k].path, target_name(k - 1), <<>>)]],
          panic |-> FALSE]

RECURSIVE attach_storages(_, _, _)
\* the storage loop from index i on: the builder it leaves, and whether it
\* ended in the panic "not enough drive letters for storage drives"
attach_storages(d, storages, i) ==
    IF i >= Len(storages) THEN [d |-> d, panic |-> FALSE]
    ELSE IF i > MaxDriveIndex THEN [d |-> d, panic |-> TRUE]
    ELSE LET store == storages[i + 1]
             next == IF store.kind = "File"
                     THEN add_file_backed_storage(d, store.path, target_name(i))
                     ELSE add_block_backed_storage(d, store.path, target_name(i))
         IN  attach_storages(next, storages, i + 1)

(***************************************************************************)
(* The interface loop of create_machine: every interface is given a MAC,   *)
(* and a device fragment when its kind is "Bridge" or "Macvtap".           *)
(***************************************************************************)
RECURSIVE attach_nics(_, _, _, _)
\* the loop from interface i on, with macs[i] the outcome of Mac::gen for
\* interface i: the interfaces, the builder and bridged_nic_info it leaves
attach_nics(st, macs, i, n) ==
    IF i > n THEN st
    ELSE LET macaddress == MacToString(macs[i])
             nic == [st.nics[i] EXCEPT !.macaddress = macaddress]
             next ==
                 CASE nic.kind = "Bridge" ->
                        [nics |-> [st.nics EXCEPT ![i] = nic],
                         d |-> add_bridged_interface(st.d, nic.parent, macaddress),
                         bridged_nic_info |-> Some(macaddress)]
                   [] nic.kind = "Macvtap" ->
                        [nics |-> [st.nics EXCEPT ![i] = nic],
                         d |-> add_macvtap_interface(st.d, nic.parent, macaddress),
                         bridged_nic_info |-> st.bridged_nic_info]
                   [] OTHER ->
                        [nics |-> [st.nics EXCEPT ![i] = nic],
                         d |-> st.d,
                         bridged_nic_info |-> st.bridged_nic_info]
         IN  attach_nics(next, macs, i + 1, n)

(***************************************************************************)
(* configdrive: Metadata and the Builder of the configuration drive.       *)
(***************************************************************************)
\* Metadata::new
Metadata_new(instance_name) ==
    [instance_id |-> instance_name, local_hostname |-> instance_name,
     network_interfaces |-> None, public_keys |-> <<>>]

\* Metadata::to_bytes: network-interfaces is skipped when None, public-keys
\* when empty
Metadata_to_bytes(md) ==
    <<Line(0, "instance-id", Some(md.instance_id)),
      Line(0, "local-hostname", Some(md.local_hostname))>>
    \o YamlOpt(0, "network-interfaces", md.network_interfaces)
    \o (IF md.public_keys # <<>> THEN YamlList(0, "public-keys", md.public_keys) ELSE <<>>)

\* configdrive::Builder::new
Builder_new(instance_name) ==
    [metadata |-> Metadata_new(instance_name), userdata |-> None, network_config |-> None]

add_network_config(builder, network_config) ==
    [builder EXCEPT !.network_config = Some(network_config)]

add_userdata(builder, userdata) == [builder EXCEPT !.userdata = Some(userdata)]

\* the builder before configdrive::Builder::new has run
NoCdBuilder == Builder_new("")

\* userdata.as_bytes().to_vec(): the bytes of a string, a string being one
\* token of text and the empty string no bytes at all
as_bytes(str) == IF str = "" THEN <<>> ELSE <<str>>

(***************************************************************************)
(* The instance store.  An instance directory holds the instance disk, the *)
(* configuration drive and, while the drive is built, the staging          *)
(* subdirectory cidata-dir with its files.  A file's data is a sequence:   *)
(* the lines or bytes written, the arguments the disk was created with,    *)
(* the files packed into the ISO.                                          *)
(***************************************************************************)
Names == {"vm1", "vm2"}

TopNames == {"instance.qcow2", "cidata.iso", "cidata-dir"}

StagedNames == {"cidata-dir/network-config", "cidata-dir/user-data", "cidata-dir/meta-data"}

EntryNames == TopNames \cup StagedNames

NoDir == [exists |-> FALSE, files |-> [f \in EntryNames |-> NoFile]]

\* std::fs::create_dir
EmptyDir == [exists |-> TRUE, files |-> [f \in EntryNames |-> NoFile]]

\* std::fs::write(path, data) inside the instance directory
WriteFile(dir, f, data) == [dir EXCEPT !.files[f] = File(data)]

\* std::fs::remove_file / remove_dir of an entry of the instance directory
RemoveEntry(dir, f) == [dir EXCEPT !.files[f] = NoFile]

\* the names std::fs::read_dir yields for the instance directory
read_dir(dir) == {f \in TopNames : dir.files[f].exists}

\* VMStore::path_for_instance
path_for_instance(id) == "/var/lib/bigiron-virt/instances/" \o id

\* Directory::get_image: the path of <id>.qcow2
image_path_of(id) == <<"/var/lib/bigiron-virt/images/">> \o id \o <<".qcow2">>

\* no hypervisor domain of a name
NoDomain == [exists |-> FALSE, xml |-> render(NoBuilder)]

\* Domain::create_xml
Domain(xml) == [exists |-> TRUE, xml |-> xml]

(***************************************************************************)
(* api::models::Machine, and Url::parse.  A URL string is the tuple of its *)
(* parts <<scheme, ":", "//", path>>; a string without a scheme does not   *)
(* parse.                                                                   *)
(***************************************************************************)
Machine(name, cpu, memory, url, hash, resize, storage, nics, userdata) ==
    [metadata |-> [name |-> name],
     spec |-> [cpu |-> cpu, memory |-> memory,
               image |-> [url |-> url, hash |-> hash, resize |-> resize],
               storage |-> storage, nics |-> nics, userdata |-> userdata]]

NoMachine == Machine("", 0, <<>>, <<>>, <<>>, None, None, None, None)

NoUrl == [scheme |-> "none", path |-> "none"]

\* Url::parse: Some(url), or None for a string that is not a URL
Url_parse(str) ==
    IF Len(str) = 4 /\ str[2] = ":" /\ str[3] = "//"
    THEN Some([scheme |-> str[1], path |-> str[4]])
    ELSE None

\* the URL string of a file path
FileUrl(path) == <<"file", ":", "//", path>>

VARIABLES
    repo,       \* the image repository: digest string -> the file <digest>.qcow2, or NoFile
    dirs,       \* the instance store: instance name -> its directory, or NoDir
    domains,    \* the hypervisor: domain name -> the running domain, or NoDomain
    call,       \* the invocations: their operation, arguments, position and locals
    calc        \* a call of one of the pure functions: its argument and its result

vars == <<repo, dirs, domains, call, calc>>

\* an invocation that has not started
IdleCall ==
    [op |-> "idle", pc |-> "idle", result |-> "none",
     url |-> NoUrl, hash |-> <<>>,
     image_stream |-> "none", rpos |-> 0, n |-> 0,
     out_stream |-> "none", wpos |-> 0, h |-> 0, hx |-> <<>>, ret |-> <<>>,
     name |-> "", machine |-> NoMachine, instance_dir |-> None,
     image_size |-> None, d |-> NoBuilder, bridged_nic_info |-> None,
     netconf |-> <<>>, builder |-> NoCdBuilder, nc_path |-> None, cd_path |-> None,
     entries |-> {}, started |-> FALSE, lookup |-> "none", stop_requests |-> 0,
     stopped |-> FALSE, trail |-> <<>>]

\* no pure function is being called
IdleCalc == [fn |-> "none", arg |-> <<>>, done |-> FALSE, out |-> <<>>]

Running(c) == call[c].op # "idle" /\ call[c].pc # "done"
Done(c) == call[c].pc = "done"

\* the invocation returns `res` to its caller
Return(r, res) == [r EXCEPT !.pc = "done", !.result = res]

\* the step `step` of the invocation went through; it goes on at `pc`
Step(r, step, pc) ==
    [r EXCEPT !.pc = pc, !.trail = Append(@, [step |-> step, ok |-> TRUE])]

\* the step `step` failed, and `?` (or a panic) ends the invocation with `res`
Fail(r, step, res) ==
    Return([r EXCEPT !.trail = Append(@, [step |-> step, ok |-> FALSE])], res)

(***************************************************************************)
(* Directory::add_image                                                    *)
(***************************************************************************)

\* Ok(hash.to_string()): the value returned to the caller; in create_machine
\* it is image_base_id and the pipeline goes on
add_image_ok(r) ==
    IF r.op = "create_machine"
    THEN Step([r EXCEPT !.ret = r.hash], "add_image", "new_instance")
    ELSE Return(Step([r EXCEPT !.ret = r.hash], "add_image", "done"), "Ok")

\* the file after write_all of one buffer at position pos (the file is opened
\* without truncation: a write inside it replaces, at its end extends)
WriteAt(f, pos, chunk) ==
    IF pos < Len(f.data) THEN File([f.data EXCEPT ![pos + 1] = chunk])
    ELSE File(Append(f.data, chunk))

\* add_image_exists without the short-circuit on an existing file
add_image_exists_always_copies(c) ==
    LET r == call[c] IN
    /\ r.pc = "add_image"
    /\ UNCHANGED <<repo, dirs, domains, calc>>
    /\ IF r.url.scheme # "file"
       THEN call' = [call EXCEPT ![c] = Fail(r, "add_image", "Err")]
       ELSE call' = [call EXCEPT ![c].pc = "open_from"]

\* the scheme check and `if to_path.exists()`
add_image_exists(c) ==
    LET r == call[c] IN
    /\ r.pc = "add_image"
    /\ UNCHANGED <<repo, dirs, domains, calc>>
    /\ IF r.url.scheme # "file"
       THEN call' = [call EXCEPT ![c] = Fail(r, "add_image", "Err")]
       ELSE IF repo[r.hash].exists
            THEN call' = [call EXCEPT ![c] = add_image_ok(r)]
            ELSE call' = [call EXCEPT ![c].pc = "open_from"]

\* std::fs::File::open(&from_path)?
add_image_open_from(c) ==
    LET r == call[c] IN
    /\ r.pc = "open_from"
    /\ UNCHANGED <<repo, dirs, domains, calc>>
    /\ IF ~srcfs[r.url.path].exists
       THEN call' = [call EXCEPT ![c] = Fail(r, "add_image", "Err")]
       ELSE call' = [call EXCEPT ![c].pc = "open_to", ![c].image_stream = "open"]

\* OpenOptions::new().write(true).create(true).open(&to_path)?
add_image_open_to(c) ==
    LET r == call[c] IN
    /\ r.pc = "open_to"
    /\ UNCHANGED <<dirs, domains, calc>>
    /\ \/ /\ repo' = [repo EXCEPT ![r.hash] = IF ~@.exists THEN File(<<>>) ELSE @]
          /\ call' = [call EXCEPT ![c].pc = "read", ![c].out_stream = "open",
                                  ![c].h = Sha256New]
       \/ \* the open fails
          /\ repo' = repo
          /\ call' = [call EXCEPT ![c] = Fail(r, "add_image", "Err")]

\* n = image_stream.read(&mut buf)?
add_image_read(c) ==
    LET r == call[c]
        src == srcfs[r.url.path].data
    IN
    /\ r.pc = "read"
    /\ UNCHANGED <<repo, dirs, domains, calc>>
    /\ \/ /\ r.rpos < Len(src)
          /\ call' = [call EXCEPT ![c].pc = "write", ![c].n = src[r.rpos + 1],
                                  ![c].rpos = r.rpos + 1]
       \/ /\ r.rpos = Len(src)
          /\ call' = [call EXCEPT ![c].pc = "finalize", ![c].n = 0]
       \/ \* the read fails
          call' = [call EXCEPT ![c] = Fail(r, "add_image", "Err")]

\* h.write_all(&buf[..n])?; out_stream.write_all(&buf[..n])?
add_image_write(c) ==
    LET r == call[c] IN
    /\ r.pc = "write"
    /\ UNCHANGED <<dirs, domains, calc>>
    /\ \/ /\ repo' = IF r.out_stream = "open"
                     THEN [repo EXCEPT ![r.hash] = WriteAt(@, r.wpos, r.n)]
                     ELSE repo
          /\ call' = [call EXCEPT ![c].pc = "read", ![c].wpos = r.wpos + 1,
                                  ![c].h = Sha256Update(r.h, r.n)]
       \/ \* the write fails
          /\ repo' = repo
          /\ call' = [call EXCEPT ![c] =
                         Fail([r EXCEPT !.h = Sha256Update(r.h, r.n)], "add_image", "Err")]

\* the handles of every other invocation on a removed file no longer reach a
\* file of the repository
Unlinked(cs, hash, c) ==
    [d \in DOMAIN cs |->
        IF d # c /\ cs[d].hash = hash /\ cs[d].out_stream = "open" /\ cs[d].pc # "done"
        THEN [cs[d] EXCEPT !.out_stream = "unlinked"]
        ELSE cs[d]]

\* add_image_finalize that leaves a non-matching file in place
add_image_finalize_keeps_file(c) ==
    LET r == [call[c] EXCEPT !.hx = HexDigest(call[c].h)] IN
    /\ r.pc = "finalize"
    /\ UNCHANGED <<dirs, domains, calc>>
    /\ repo' = repo
    /\ call' = [call EXCEPT ![c] = IF r.hx # r.hash THEN Fail(r, "add_image", "Err")
                                   ELSE add_image_ok(r)]

\* hx = hex::encode(h.finalize()); if hx != hash { remove_file(..).expect(..); Err } else Ok
add_image_finalize(c) ==
    LET r == [call[c] EXCEPT !.hx = HexDigest(call[c].h)] IN
    /\ r.pc = "finalize"
    /\ UNCHANGED <<dirs, domains, calc>>
    /\ IF r.hx # r.hash
       THEN IF ~repo[r.hash].exists
            THEN \* remove_file fails: expect() panics
                 /\ repo' = repo
                 /\ call' = [call EXCEPT ![c] = Fail(r, "add_image", "panic")]
            ELSE /\ repo' = [repo EXCEPT ![r.hash] = NoFile]
                 /\ call' = Unlinked([call EXCEPT ![c] = Fail(r, "add_image", "Err")], r.hash, c)
       ELSE /\ repo' = repo
            /\ call' = [call EXCEPT ![c] = add_image_ok(r)]

add_image_step(c) ==
    \/ add_image_exists(c)
    \/ add_image_open_from(c)
    \/ add_image_open_to(c)
    \/ add_image_read(c)
    \/ add_image_write(c)
    \/ add_image_finalize(c)

\* a caller invokes imagestore.add_image(url, hash)
call_add_image(c, url, hash) ==
    /\ call[c].op = "idle"
    /\ call' = [call EXCEPT ![c] = [IdleCall EXCEPT !.op = "add_image", !.pc = "add_image",
                                                    !.url = url, !.hash = hash]]
    /\ UNCHANGED <<repo, dirs, domains, calc>>



(***************************************************************************)
(* The image repository used by one process at a time: add_image calls     *)
(* follow one another.                                                     *)
(***************************************************************************)
InitRepo ==
    /\ repo = [hs \in Hashes |-> NoFile]
    /\ dirs = [id \in Names |-> NoDir]
    /\ domains = [id \in Names |-> NoDomain]
    /\ call = [c \in Calls |-> IdleCall]
    /\ calc = IdleCalc

NextRepo ==
    \E c \in Calls :
        \/ /\ \A d \in Calls : ~Running(d)
           /\ \A d \in Calls : d < c => call[d].op # "idle"
           /\ \E url \in Urls, hash \in Hashes : call_add_image(c, url, hash)
        \/ add_image_step(c)

SpecRepo == InitRepo /\ [][NextRepo]_vars

(***************************************************************************)
(* Claims about the image repository.                                      *)
(***************************************************************************)

\* the digest string of a stored file's contents
DigestOfFile(f) == HexDigest(Sha256Of(f.data))

\* the digest string of the source image an invocation names
DigestOfSource(r) == DigestOfFile(srcfs[r.url.path])

\* C1: after any sequence of add_image calls (successful, failed, or aborted
\* by an I/O error while copying), every file stored as <D>.qcow2 has
\* SHA-256(contents) = D, and no call has returned Ok(D) over a file whose
\* digest is not D.
C1_RepoIntegrity ==
    (\A c \in Calls : ~Running(c)) =>
        /\ \A hs \in Hashes : repo[hs].exists => DigestOfFile(repo[hs]) = hs
        /\ \A c \in Calls :
              (call[c].op = "add_image" /\ call[c].result = "Ok") =>
                  /\ repo[call[c].ret].exists
                  /\ DigestOfFile(repo[call[c].ret]) = call[c].ret

Imported(url, hash) ==
    \E d \in Calls :
        /\ call[d].op = "add_image"
        /\ call[d].url = url
        /\ call[d].hash = hash
        /\ call[d].result = "Ok"

\* C3: after a successful add_image(path, D), another add_image(path, D)
\* returns the identity D without opening the source and without changing
\* any stored file.
C3_ImportIdempotent ==
    [][\A c \in Calls :
          (/\ call[c].pc = "add_image"
           /\ call'[c] # call[c]
           /\ Imported(call[c].url, call[c].hash))
          => (/\ call'[c].pc = "done"
              /\ call'[c].result = "Ok"
              /\ call'[c].ret = call[c].hash
              /\ call'[c].image_stream = "none"
              /\ call'[c].out_stream = "none"
              /\ repo' = repo)]_vars

\* C3's case: one call copied the image in, a later one with the same
\* arguments returned Ok without opening the source
C3_Witness ==
    \E c, d \in Calls :
        /\ c # d
        /\ call[c].op = "add_image" /\ call[d].op = "add_image"
        /\ call[c].url = call[d].url /\ call[c].hash = call[d].hash
        /\ call[d].result = "Ok" /\ call[d].image_stream = "open"
        /\ call[c].result = "Ok" /\ call[c].image_stream = "none"
        /\ call[c].ret = call[d].ret

(***************************************************************************)
(* HostManager::create_machine.  Its steps, in the order of the code; the  *)
(* trail of an invocation lists the steps it has been through and whether  *)
(* each went through.                                                      *)
(***************************************************************************)
CreateSteps ==
    <<"add_image", "new_instance", "create_instance_image", "DomainBuilder_new",
      "attach_interfaces", "build_net_config", "configdrive_build",
      "attach_storage", "build">>

\* a caller invokes create_machine(machine); Url::parse(&machine.spec.image.url)?
call_create_machine(c, machine) ==
    LET r == [IdleCall EXCEPT !.op = "create_machine", !.machine = machine,
                              !.name = machine.metadata.name]
        image_url == Url_parse(machine.spec.image.url)
    IN
    /\ call[c].op = "idle"
    /\ call' = [call EXCEPT ![c] =
                   IF IsSome(image_url)
                   THEN [r EXCEPT !.pc = "add_image", !.url = Unwrap(image_url),
                                  !.hash = machine.spec.image.hash]
                   ELSE Return(r, "Err")]
    /\ UNCHANGED <<repo, dirs, domains, calc>>

\* new_instance that takes an existing directory for its own (create_dir_all)
new_instance_takes_existing(c) ==
    LET r == call[c] IN
    /\ r.pc = "new_instance"
    /\ UNCHANGED <<repo, domains, calc>>
    /\ dirs' = [dirs EXCEPT ![r.name] = IF @.exists THEN @ ELSE EmptyDir]
    /\ call' = [call EXCEPT ![c] =
                   Step([r EXCEPT !.instance_dir = Some(path_for_instance(r.name))],
                        "new_instance", "create_instance_image")]

\* self.vmstore.new_instance(name)?: std::fs::create_dir fails on an existing path
new_instance(c) ==
    LET r == call[c] IN
    /\ r.pc = "new_instance"
    /\ UNCHANGED <<repo, domains, calc>>
    /\ IF dirs[r.name].exists
       THEN /\ dirs' = dirs
            /\ call' = [call EXCEPT ![c] = Fail(r, "new_instance", "Err")]
       ELSE /\ dirs' = [dirs EXCEPT ![r.name] = EmptyDir]
            /\ call' = [call EXCEPT ![c] =
                           Step([r EXCEPT !.instance_dir = Some(path_for_instance(r.name))],
                                "new_instance", "create_instance_image")]

\* the size a size string gives a step: the values to go on with, and the
\* ways the step ends instead (an overflowing multiplication panics in a
\* debug build and wraps in a release build)
SizeValues(sz) ==
    IF sz.kind \in {"Ok", "overflow"} THEN {sz.val} ELSE {}

SizeFailures(sz) ==
    CASE sz.kind = "Err" -> {"Err"}
      [] sz.kind \in {"panic", "overflow"} -> {"panic"}
      [] OTHER -> {}

\* to_size(resize)?, get_image(&image_base_id)?, create_instance_image(..)?
create_instance_image(c) ==
    LET r == call[c]
        resize == r.machine.spec.image.resize
        sz == IF IsSome(resize) THEN to_size(Unwrap(resize)) ELSE [kind |-> "Ok", val |-> <<>>]
    IN
    /\ r.pc = "create_instance_image"
    /\ UNCHANGED <<repo, domains, calc>>
    /\ \/ \E res \in SizeFailures(sz) :
             /\ dirs' = dirs
             /\ call' = [call EXCEPT ![c] = Fail(r, "create_instance_image", res)]
       \/ \E val \in SizeValues(sz) :
             LET image_size == IF IsSome(resize) THEN Some(val) ELSE None
                 r1 == [r EXCEPT !.image_size = image_size]
             IN  IF ~repo[r.ret].exists
                 THEN \* get_image: no image with this id
                      /\ dirs' = dirs
                      /\ call' = [call EXCEPT ![c] = Fail(r1, "create_instance_image", "Err")]
                 ELSE \/ /\ dirs[r.name].exists
                         /\ dirs' = [dirs EXCEPT ![r.name] =
                                        WriteFile(@, "instance.qcow2",
                                                  <<[backing_file |-> image_path_of(r.ret),
                                                     size |-> image_size]>>)]
                         /\ call' = [call EXCEPT ![c] =
                                        Step(r1, "create_instance_image", "DomainBuilder_new")]
                      \/ \* qemu-img does not run or exits with a failure
                         /\ dirs' = dirs
                         /\ call' = [call EXCEPT ![c] = Fail(r1, "create_instance_image", "Err")]

\* libvirt::DomainBuilder::new(name, cpu, to_size(&machine.spec.memory)?, image_path)
domain_builder_new(c) ==
    LET r == call[c]
        sz == to_size(r.machine.spec.memory)
        image_path == Unwrap(r.instance_dir) \o "/instance.qcow2"
    IN
    /\ r.pc = "DomainBuilder_new"
    /\ UNCHANGED <<repo, dirs, domains, calc>>
    /\ \/ \E res \in SizeFailures(sz) :
             call' = [call EXCEPT ![c] = Fail(r, "DomainBuilder_new", res)]
       \/ \E val \in SizeValues(sz) :
             call' = [call EXCEPT ![c] =
                         Step([r EXCEPT !.d = DomainBuilder_new(r.name, r.machine.spec.cpu,
                                                                val, image_path)],
                              "DomainBuilder_new", "attach_interfaces")]

\* the loop over machine.spec.nics, each Mac::gen drawing any MAC of the pool
attach_interfaces(c) ==
    LET r == call[c]
        nics == r.machine.spec.nics
    IN
    /\ r.pc = "attach_interfaces"
    /\ UNCHANGED <<repo, dirs, domains, calc>>
    /\ IF ~IsSome(nics)
       THEN call' = [call EXCEPT ![c] = Step(r, "attach_interfaces", "build_net_config")]
       ELSE \E macs \in [1..Len(Unwrap(nics)) -> MacPool] :
               LET st == attach_nics([nics |-> Unwrap(nics), d |-> r.d,
                                      bridged_nic_info |-> None],
                                     macs, 1, Len(Unwrap(nics)))
               IN  call' = [call EXCEPT ![c] =
                               Step([r EXCEPT !.machine.spec.nics = Some(st.nics),
                                              !.d = st.d,
                                              !.bridged_nic_info = st.bridged_nic_info],
                                    "attach_interfaces", "build_net_config")]

\* build_net_config(&machine.spec.nics)?, configdrive::Builder::new(name),
\* add_network_config unless netconf is empty, add_userdata if there is one
net_config(c) ==
    LET r == call[c]
        nics == r.machine.spec.nics
        userdata == r.machine.spec.userdata
    IN
    /\ r.pc = "build_net_config"
    /\ UNCHANGED <<repo, dirs, domains, calc>>
    /\ \E order \in Orders(IF IsSome(nics) THEN Len(Unwrap(nics)) ELSE 0) :
          LET netconf == build_net_config(nics, order)
              b0 == Builder_new(r.name)
              b1 == IF Len(netconf) # 0 THEN add_network_config(b0, netconf) ELSE b0
              b2 == IF IsSome(userdata) THEN add_userdata(b1, as_bytes(Unwrap(userdata))) ELSE b1
          IN  call' = [call EXCEPT ![c] =
                          Step([r EXCEPT !.netconf = netconf, !.builder = b2],
                               "build_net_config", "cd_stage")]

(***************************************************************************)
(* configdrive::Builder::build, in three steps: the staging of the files,  *)
(* create_iso, and the removal of the staged files.  An operation of the   *)
(* file system may fail; `?` then ends the build where it stands.          *)
(***************************************************************************)
\* the files build writes, in the order it writes them
StagedFiles(builder) ==
    (IF IsSome(builder.network_config)
     THEN <<[name |-> "cidata-dir/network-config", data |-> Unwrap(builder.network_config)]>>
     ELSE <<>>)
    \o <<[name |-> "cidata-dir/user-data",
          data |-> IF IsSome(builder.userdata) THEN Unwrap(builder.userdata) ELSE <<>>],
         [name |-> "cidata-dir/meta-data", data |-> Metadata_to_bytes(builder.metadata)]>>

RECURSIVE WriteAll(_, _, _)
\* the directory after the first k of the files are written
WriteAll(dir, files, k) ==
    IF k = 0 THEN dir
    ELSE WriteFile(WriteAll(dir, files, k - 1), files[k].name, files[k].data)

RECURSIVE RemoveAll(_, _, _)
\* the directory after the first k of the names are removed
RemoveAll(dir, names, k) ==
    IF k = 0 THEN dir
    ELSE RemoveEntry(RemoveAll(dir, names, k - 1), names[k])

\* create_dir_all(&cd_dir)? and the std::fs::write(..)? of each file; the
\* operation numbered `failing` fails, none when it is past the last
cd_stage(c) ==
    LET r == call[c]
        files == StagedFiles(r.builder)
        cd_dir == [name |-> "cidata-dir", data |-> <<>>]
        ops == <<cd_dir>> \o files
    IN
    /\ r.pc = "cd_stage"
    /\ UNCHANGED <<repo, domains, calc>>
    /\ \E failing \in 1..(Len(ops) + 1) :
          /\ dirs' = [dirs EXCEPT ![r.name] =
                         IF failing = 1 THEN @
                         ELSE WriteAll([@ EXCEPT !.exists = TRUE], ops, failing - 1)]
          /\ call' = [call EXCEPT ![c] =
                         IF failing <= Len(ops)
                         THEN Fail(r, "configdrive_build", "Err")
                         ELSE [r EXCEPT !.pc = "cd_create_iso",
                                        !.nc_path = IF IsSome(r.builder.network_config)
                                                    THEN Some("cidata-dir/network-config")
                                                    ELSE None]]

\* the files mkisofs is given: user-data, meta-data and, if there is one,
\* network-config
IsoFiles(dir, nc_path) ==
    <<[name |-> "user-data", data |-> dir.files["cidata-dir/user-data"].data],
      [name |-> "meta-data", data |-> dir.files["cidata-dir/meta-data"].data]>>
    \o (IF IsSome(nc_path)
        THEN <<[name |-> "network-config", data |-> dir.files[Unwrap(nc_path)].data]>>
        ELSE <<>>)

\* create_iso whose failure does not end the build
cd_create_iso_unchecked(c) ==
    LET r == call[c] IN
    /\ r.pc = "cd_create_iso"
    /\ UNCHANGED <<repo, domains, calc>>
    /\ \/ /\ dirs' = [dirs EXCEPT ![r.name] =
                         WriteFile(@, "cidata.iso", IsoFiles(dirs[r.name], r.nc_path))]
          /\ call' = [call EXCEPT ![c].pc = "cd_cleanup"]
       \/ /\ dirs' = dirs
          /\ call' = [call EXCEPT ![c].pc = "cd_cleanup",
                                  ![c].trail = Append(@, [step |-> "configdrive_build",
                                                          ok |-> FALSE])]

\* create_iso(&iso_path, &ud_path, &md_path, &nc_path)?
cd_create_iso(c) ==
    LET r == call[c] IN
    /\ r.pc = "cd_create_iso"
    /\ UNCHANGED <<repo, domains, calc>>
    /\ \/ /\ dirs' = [dirs EXCEPT ![r.name] =
                         WriteFile(@, "cidata.iso", IsoFiles(dirs[r.name], r.nc_path))]
          /\ call' = [call EXCEPT ![c].pc = "cd_cleanup"]
       \/ \* mkisofs exits with a failure
          /\ dirs' = dirs
          /\ call' = [call EXCEPT ![c] = Fail(r, "configdrive_build", "Err")]
       \/ \* mkisofs cannot be executed: expect() panics
          /\ dirs' = dirs
          /\ call' = [call EXCEPT ![c] = Fail(r, "configdrive_build", "panic")]

\* the cleanup of build with the outcome of every removal ignored
cd_cleanup_ignores_failure(c) ==
    LET r == call[c]
        names == <<"cidata-dir/meta-data", "cidata-dir/user-data">>
                 \o (IF IsSome(r.nc_path) THEN <<Unwrap(r.nc_path)>> ELSE <<>>)
                 \o <<"cidata-dir">>
    IN
    /\ r.pc = "cd_cleanup"
    /\ UNCHANGED <<repo, domains, calc>>
    /\ \E failing \in 1..(Len(names) + 1) :
          /\ dirs' = [dirs EXCEPT ![r.name] = RemoveAll(@, names, failing - 1)]
          /\ call' = [call EXCEPT ![c] =
                         Step([r EXCEPT !.cd_path =
                                  Some(Unwrap(r.instance_dir) \o "/cidata.iso")],
                              "configdrive_build", "attach_storage")]

\* remove_file(&md_path)?, remove_file(&ud_path)?, remove_file(nc_path)?,
\* remove_dir(&cd_dir)?, then canonicalize()?; the removal numbered `failing`
\* fails, none when it is past the last
cd_cleanup(c) ==
    LET r == call[c]
        names == <<"cidata-dir/meta-data", "cidata-dir/user-data">>
                 \o (IF IsSome(r.nc_path) THEN <<Unwrap(r.nc_path)>> ELSE <<>>)
                 \o <<"cidata-dir">>
    IN
    /\ r.pc = "cd_cleanup"
    /\ UNCHANGED <<repo, domains, calc>>
    /\ \E failing \in 1..(Len(names) + 1) :
          /\ dirs' = [dirs EXCEPT ![r.name] = RemoveAll(@, names, failing - 1)]
          /\ call' = [call EXCEPT ![c] =
                         IF failing <= Len(names) \/ ~dirs[r.name].files["cidata.iso"].exists
                         THEN Fail(r, "configdrive_build", "Err")
                         ELSE Step([r EXCEPT !.cd_path =
                                        Some(Unwrap(r.instance_dir) \o "/cidata.iso")],
                                   "configdrive_build", "attach_storage")]

\* d.add_cdrom_from_iso(&cd_path)? and the loop over machine.spec.storage
attach_storage(c) ==
    LET r == call[c]
        storage == r.machine.spec.storage
        d1 == add_cdrom_from_iso(r.d, Unwrap(r.cd_path))
        out == IF IsSome(storage) THEN attach_storages(d1, Unwrap(storage), 0)
               ELSE [d |-> d1, panic |-> FALSE]
    IN
    /\ r.pc = "attach_storage"
    /\ UNCHANGED <<repo, dirs, domains, calc>>
    /\ call' = [call EXCEPT ![c] =
                   IF out.panic
                   THEN Fail([r EXCEPT !.d = out.d], "attach_storage", "panic")
                   ELSE Step([r EXCEPT !.d = out.d], "attach_storage", "build")]

\* build that removes the instance directory when the domain does not start
build_rolls_back(c) ==
    LET r == call[c]
        domxml == render(r.d)
    IN
    /\ r.pc = "build"
    /\ UNCHANGED <<repo, calc>>
    /\ \/ /\ ~domains[r.name].exists
          /\ domains' = [domains EXCEPT ![r.name] = Domain(domxml)]
          /\ dirs' = dirs
          /\ call' = [call EXCEPT ![c] =
                         Return(Step([r EXCEPT !.started = TRUE], "build", "done"), "Ok")]
       \/ /\ domains' = domains
          /\ dirs' = [dirs EXCEPT ![r.name] = NoDir]
          /\ call' = [call EXCEPT ![c] = Fail(r, "build", "Err")]

\* d.build()?: render, Connect::open("")?, Domain::create_xml(..)?; the
\* hypervisor refuses a second domain of a name
build(c) ==
    LET r == call[c]
        domxml == render(r.d)
    IN
    /\ r.pc = "build"
    /\ UNCHANGED <<repo, dirs, calc>>
    /\ \/ /\ ~domains[r.name].exists
          /\ domains' = [domains EXCEPT ![r.name] = Domain(domxml)]
          /\ call' = [call EXCEPT ![c] =
                         Return(Step([r EXCEPT !.started = TRUE], "build", "done"), "Ok")]
       \/ \* no connection, or the hypervisor refuses the domain
          /\ domains' = domains
          /\ call' = [call EXCEPT ![c] = Fail(r, "build", "Err")]

create_machine_step(c) ==
    \/ call[c].op = "create_machine" /\ add_image_step(c)
    \/ new_instance(c)
    \/ create_instance_image(c)
    \/ domain_builder_new(c)
    \/ attach_interfaces(c)
    \/ net_config(c)
    \/ cd_stage(c)
    \/ cd_create_iso(c)
    \/ cd_cleanup(c)
    \/ attach_storage(c)
    \/ build(c)

(***************************************************************************)
(* HostManager::destroy_machine                                            *)
(***************************************************************************)
\* a caller invokes destroy_machine(id)
call_destroy_machine(c, id) ==
    /\ call[c].op = "idle"
    /\ call' = [call EXCEPT ![c] = [IdleCall EXCEPT !.op = "destroy_machine",
                                                    !.pc = "libvirt_destroy", !.name = id]]
    /\ UNCHANGED <<repo, dirs, domains, calc>>

\* libvirt::destroy whose failure is not passed on
libvirt_destroy_swallows_failure(c) ==
    LET r == call[c]
        requested == [r EXCEPT !.lookup = "found", !.stop_requests = @ + 1]
    IN
    /\ r.pc = "libvirt_destroy"
    /\ UNCHANGED <<repo, dirs, calc>>
    /\ \/ /\ domains' = domains
          /\ call' = [call EXCEPT ![c] = Fail(r, "libvirt_destroy", "Err")]
       \/ /\ ~domains[r.name].exists
          /\ domains' = domains
          /\ call' = [call EXCEPT ![c] = Step([r EXCEPT !.lookup = "Domain not found"],
                                              "libvirt_destroy", "read_dir")]
       \/ /\ domains' = domains
          /\ call' = [call EXCEPT ![c] = Step([r EXCEPT !.lookup = "error"],
                                              "libvirt_destroy", "read_dir")]
       \/ /\ domains[r.name].exists
          /\ \/ /\ domains' = [domains EXCEPT ![r.name] = NoDomain]
                /\ call' = [call EXCEPT ![c] = Step([requested EXCEPT !.stopped = TRUE],
                                                    "libvirt_destroy", "read_dir")]
             \/ /\ domains' = domains
                /\ call' = [call EXCEPT ![c] = Step(requested, "libvirt_destroy", "read_dir")]

\* libvirt::destroy that passes "Domain not found" on like any other error
libvirt_destroy_not_found_is_error(c) ==
    LET r == call[c]
        requested == [r EXCEPT !.lookup = "found", !.stop_requests = @ + 1]
    IN
    /\ r.pc = "libvirt_destroy"
    /\ UNCHANGED <<repo, dirs, calc>>
    /\ \/ /\ domains' = domains
          /\ call' = [call EXCEPT ![c] = Fail(r, "libvirt_destroy", "Err")]
       \/ /\ ~domains[r.name].exists
          /\ domains' = domains
          /\ call' = [call EXCEPT ![c] = Fail([r EXCEPT !.lookup = "Domain not found"],
                                              "libvirt_destroy", "Err")]
       \/ /\ domains' = domains
          /\ call' = [call EXCEPT ![c] = Fail([r EXCEPT !.lookup = "error"],
                                              "libvirt_destroy", "Err")]
       \/ /\ domains[r.name].exists
          /\ \/ /\ domains' = [domains EXCEPT ![r.name] = NoDomain]
                /\ call' = [call EXCEPT ![c] = Step([requested EXCEPT !.stopped = TRUE],
                                                    "libvirt_destroy", "read_dir")]
             \/ /\ domains' = domains
                /\ call' = [call EXCEPT ![c] = Fail(requested, "libvirt_destroy", "Err")]

\* libvirt::destroy(id)?: Connect::open("")?, then Domain::lookup_by_name.
\* `lookup` is what the hypervisor answered: an error whose text contains
\* "Domain not found" is Ok(()), any other error is returned by `dom?`, and a
\* domain found gets dom.unwrap().destroy()?
libvirt_destroy(c) ==
    LET r == call[c]
        requested == [r EXCEPT !.lookup = "found", !.stop_requests = @ + 1]
    IN
    /\ r.pc = "libvirt_destroy"
    /\ UNCHANGED <<repo, dirs, calc>>
    /\ \/ \* no connection to the hypervisor
          /\ domains' = domains
          /\ call' = [call EXCEPT ![c] = Fail(r, "libvirt_destroy", "Err")]
       \/ /\ ~domains[r.name].exists
          /\ domains' = domains
          /\ call' = [call EXCEPT ![c] = Step([r EXCEPT !.lookup = "Domain not found"],
                                              "libvirt_destroy", "read_dir")]
       \/ \* the lookup fails for another reason
          /\ domains' = domains
          /\ call' = [call EXCEPT ![c] = Fail([r EXCEPT !.lookup = "error"],
                                              "libvirt_destroy", "Err")]
       \/ /\ domains[r.name].exists
          /\ \/ /\ domains' = [domains EXCEPT ![r.name] = NoDomain]
                /\ call' = [call EXCEPT ![c] = Step([requested EXCEPT !.stopped = TRUE],
                                                    "libvirt_destroy", "read_dir")]
             \/ \* the stop request fails
                /\ domains' = domains
                /\ call' = [call EXCEPT ![c] = Fail(requested, "libvirt_destroy", "Err")]

\* std::fs::read_dir(&path)?
remove_instance_read_dir(c) ==
    LET r == call[c] IN
    /\ r.pc = "read_dir"
    /\ UNCHANGED <<repo, dirs, domains, calc>>
    /\ call' = [call EXCEPT ![c] =
                   IF ~dirs[r.name].exists
                   THEN Fail(r, "remove_instance", "Err")
                   ELSE [r EXCEPT !.entries = read_dir(dirs[r.name]),
                                  !.pc = IF read_dir(dirs[r.name]) = {} THEN "remove_dir"
                                         ELSE "remove_file"]]

\* remove_instance_remove_file that goes on to the next entry after a failure
remove_instance_remove_file_skips_failure(c) ==
    LET r == call[c] IN
    /\ r.pc = "remove_file"
    /\ UNCHANGED <<repo, domains, calc>>
    /\ \E entry \in r.entries :
          /\ \/ /\ entry # "cidata-dir"
                /\ dirs[r.name].exists /\ dirs[r.name].files[entry].exists
                /\ dirs' = [dirs EXCEPT ![r.name] = RemoveEntry(@, entry)]
             \/ dirs' = dirs
          /\ call' = [call EXCEPT ![c].entries = @ \ {entry},
                                  ![c].pc = IF r.entries = {entry} THEN "remove_dir"
                                            ELSE "remove_file"]

\* std::fs::remove_file(entry.path())? for the next entry the iterator
\* yields: it fails on a directory and on a path that is gone
remove_instance_remove_file(c) ==
    LET r == call[c] IN
    /\ r.pc = "remove_file"
    /\ UNCHANGED <<repo, domains, calc>>
    /\ \E entry \in r.entries :
          \/ /\ entry # "cidata-dir"
             /\ dirs[r.name].exists /\ dirs[r.name].files[entry].exists
             /\ dirs' = [dirs EXCEPT ![r.name] = RemoveEntry(@, entry)]
             /\ call' = [call EXCEPT ![c].entries = @ \ {entry},
                                     ![c].pc = IF r.entries = {entry} THEN "remove_dir"
                                               ELSE "remove_file"]
          \/ \* the removal fails
             /\ dirs' = dirs
             /\ call' = [call EXCEPT ![c] = Fail(r, "remove_instance", "Err")]

\* std::fs::remove_dir(&path)?: it fails on a directory that is not empty
remove_instance_remove_dir(c) ==
    LET r == call[c] IN
    /\ r.pc = "remove_dir"
    /\ UNCHANGED <<repo, domains, calc>>
    /\ \/ /\ dirs[r.name].exists /\ read_dir(dirs[r.name]) = {}
          /\ dirs' = [dirs EXCEPT ![r.name] = NoDir]
          /\ call' = [call EXCEPT ![c] = Return(Step(r, "remove_instance", "done"), "Ok")]
       \/ \* the removal fails
          /\ dirs' = dirs
          /\ call' = [call EXCEPT ![c] = Fail(r, "remove_instance", "Err")]

destroy_machine_step(c) ==
    \/ libvirt_destroy(c)
    \/ remove_instance_read_dir(c)
    \/ remove_instance_remove_file(c)
    \/ remove_instance_remove_dir(c)

(***************************************************************************)
(* The machines the callers declare.                                       *)
(***************************************************************************)
\* the digest string of the source image /img/a
HashA == HexDigest(Sha256Of(srcfs["/img/a"].data))

\* a machine on the image /img/a with 512Mi of memory
BaseMachine(name, storage, nics) ==
    Machine(name, 2, <<"5", "1", "2", "M", "i">>, FileUrl("/img/a"), HashA,
            None, storage, nics, None)

\* the longest interface list a machine declares
MaxNics == 2
\* storage lists run up to this many attachments, and up to this many past
\* the last drive letter
MaxExtra == 2

\* the interfaces a list is made of: a bridge with SLAAC, a macvtap with a
\* static address, and one whose kind is neither "Bridge" nor "Macvtap"
NicChoices ==
    {Nic("Bridge", "br0", SLAAC),
     Nic("Macvtap", "eth0", IPv4Static("192.168.3.160/24", "192.168.3.1", <<"192.168.3.1">>)),
     Nic("bridge", "br1", IPv4Static("10.0.0.2/24", "10.0.0.1", <<>>))}

NicLists == UNION {[1..n -> NicChoices] : n \in 0..MaxNics}

\* the storage list of n attachments, file- and block-backed in turn
StorageList(n) ==
    [i \in 1..n |-> StorageKind(IF i % 2 = 1 THEN "File" ELSE "Block",
                                "/srv/disk" \o ToString(i))]

StorageLens == (0..MaxExtra) \cup {MaxDriveIndex + 1 + k : k \in 0..MaxExtra}

\* the machines of a single create_machine: every interface list with every
\* storage list, and the base machine with another image, size or userdata
CreateMachines ==
    {BaseMachine("vm1", storage, nics) :
        storage \in {None} \cup {Some(StorageList(n)) : n \in StorageLens},
        nics \in {None} \cup {Some(l) : l \in NicLists}}
    \cup {Machine("vm1", 2, memory, url, hash, resize, None, None, userdata) :
            memory \in {<<"5", "1", "2", "M", "i">>},
            url \in {FileUrl("/img/a"), FileUrl("/img/b"), FileUrl("/img/none"),
                     <<"http", ":", "//", "/img/a">>, <<"/img/a">>},
            hash \in {HashA},
            resize \in {None, Some(<<"1", "0", "0", "G">>)},
            userdata \in {None, Some("#cloud-config"), Some("")}}
    \cup {Machine("vm1", 2, memory, FileUrl("/img/a"), HashA, resize, None, None, None) :
            memory \in {<<"1", "0", "0", "M">>, <<"M">>, <<"x", "M">>,
                        <<"1", "8", "4", "4", "6", "7", "4", "4", "0", "7", "3", "7",
                          "0", "9", "5", "5", "1", "6", "1", "5", "K">>},
            resize \in {None, Some(<<"1", "2", "G", "i">>), Some(<<"1", "2", "X">>),
                        Some(<<"G">>), Some(<<"G", "i">>)}}

\* the machines of the host's sequential and concurrent callers
HostMachines == {BaseMachine(id, None, None) : id \in Names}

(***************************************************************************)
(* One create_machine on a fresh host, over every declared machine.        *)
(***************************************************************************)
InitHost ==
    /\ repo = [hs \in Hashes |-> NoFile]
    /\ dirs = [id \in Names |-> NoDir]
    /\ domains = [id \in Names |-> NoDomain]
    /\ call = [c \in Calls |-> IdleCall]
    /\ calc = IdleCalc

NextCreate ==
    \E c \in Calls :
        \/ /\ \A d \in Calls : call[d].op = "idle"
           /\ \A d \in Calls : c <= d
           /\ \E machine \in CreateMachines : call_create_machine(c, machine)
        \/ create_machine_step(c)

SpecCreate == InitHost /\ [][NextCreate]_vars

(***************************************************************************)
(* The host used by one caller at a time: create_machine and               *)
(* destroy_machine follow one another.                                     *)
(***************************************************************************)
\* machines whose create_machine fails after the directory is allocated
\* whatever the host does: a resize string and a memory string that do not
\* parse, and one storage attachment more than there are drive letters
FailingMachines ==
    {Machine("vm1", 2, <<"5", "1", "2", "M", "i">>, FileUrl("/img/a"), HashA,
             Some(<<"x", "G">>), None, None, None),
     Machine("vm1", 2, <<"x", "M">>, FileUrl("/img/a"), HashA, None, None, None, None),
     BaseMachine("vm1", Some(StorageList(MaxDriveIndex + 2)), None)}

NextHost ==
    \E c \in Calls :
        \/ /\ \A d \in Calls : ~Running(d)
           /\ \A d \in Calls : d < c => call[d].op # "idle"
           /\ \/ \E machine \in HostMachines \cup FailingMachines :
                    call_create_machine(c, machine)
              \/ \E id \in Names : call_destroy_machine(c, id)
        \/ create_machine_step(c)
        \/ destroy_machine_step(c)

SpecHost == InitHost /\ [][NextHost]_vars

(***************************************************************************)
(* Concurrent callers: create_machine invocations interleave step by step. *)
(***************************************************************************)
NextRace ==
    \E c \in Calls :
        \/ \E machine \in HostMachines : call_create_machine(c, machine)
        \/ create_machine_step(c)

SpecRace == InitHost /\ [][NextRace]_vars

(***************************************************************************)
(* Claims about the host manager.                                          *)
(***************************************************************************)

\* the invocation has been through the step, and the step went through
Performed(r, step) == \E i \in 1..Len(r.trail) : r.trail[i].step = step
Passed(r, step) == \E i \in 1..Len(r.trail) : r.trail[i] = [step |-> step, ok |-> TRUE]

\* the create_machine invocations for `id` that reached directory allocation
Allocating(id) ==
    {c \in Calls : /\ call[c].op = "create_machine"
                   /\ call[c].name = id
                   /\ Performed(call[c], "new_instance")}

\* C4: new_instance(name) fails when a directory for the name exists and
\* leaves the directory and its contents as they are; of the concurrent
\* create_machine calls for one name that reach directory allocation exactly
\* one passes it, and only a call that passed allocation ever changes the
\* instance directory of that name.
C4_AllocationNeverOverwrites ==
    /\ [](\A id \in Names :
             Allocating(id) # {} =>
                 Cardinality({c \in Allocating(id) : Passed(call[c], "new_instance")}) = 1)
    /\ [][\A c \in Calls :
             (call[c].op = "create_machine" /\ call'[c] # call[c]) =>
                 /\ (call[c].pc = "new_instance" /\ dirs[call[c].name].exists) =>
                        /\ call'[c].pc = "done"
                        /\ call'[c].result = "Err"
                        /\ dirs' = dirs
                 /\ dirs' # dirs =>
                        /\ Passed(call'[c], "new_instance")
                        /\ \A id \in Names \ {call[c].name} : dirs'[id] = dirs[id]]_vars

\* C4's case: of two calls for one name the loser found the directory of the
\* winner, which holds its disk and configuration drive and runs its domain
C4_Witness ==
    \E c, d \in Calls :
        /\ c # d
        /\ call[c].op = "create_machine" /\ call[d].op = "create_machine"
        /\ call[c].name = call[d].name
        /\ call[c].started
        /\ call[d].result = "Err"
        /\ Performed(call[d], "new_instance") /\ ~Passed(call[d], "new_instance")
        /\ dirs[call[c].name].files["instance.qcow2"].exists
        /\ dirs[call[c].name].files["cidata.iso"].exists

\* no create_machine for `id` has allocated its directory
NeverCreated(id) ==
    \A d \in Calls :
        (call[d].op = "create_machine" /\ call[d].name = id) => ~IsSome(call[d].instance_dir)

\* C5: destroy_machine(id) for an id with no hypervisor domain and no
\* instance directory returns Ok; so does a second destroy_machine(id) after
\* a successful one.
C5_DestroyNeverCreated ==
    \A c \in Calls :
        (/\ call[c].op = "destroy_machine"
         /\ Done(c)
         /\ Passed(call[c], "libvirt_destroy")
         /\ ~call[c].stopped
         /\ \/ NeverCreated(call[c].name)
            \/ \E d \in Calls : /\ d < c
                                /\ call[d].op = "destroy_machine"
                                /\ call[d].name = call[c].name
                                /\ call[d].result = "Ok")
        => call[c].result = "Ok"

\* the number of entries of the trail for the step
Times(r, step) == Cardinality({i \in 1..Len(r.trail) : r.trail[i].step = step})

\* C6: destroy_machine(id) stops the domain first and only after that
\* removes the instance directory; it returns Ok only when both went
\* through; when the stop fails the directory is untouched; when the removal
\* fails after the stop the domain stays stopped and nothing is tried again.
C6_StopThenRemove ==
    [][\A c \in Calls :
          (call[c].op = "destroy_machine" /\ call'[c] # call[c]) =>
              LET r == call[c]
                  r2 == call'[c]
              IN  /\ domains' # domains =>
                         (r.pc = "libvirt_destroy" /\ r.trail = <<>> /\ dirs' = dirs)
                  /\ dirs' # dirs =>
                         (Passed(r, "libvirt_destroy") /\ ~domains[r.name].exists)
                  /\ r2.result = "Ok" =>
                         /\ r2.trail = <<[step |-> "libvirt_destroy", ok |-> TRUE],
                                         [step |-> "remove_instance", ok |-> TRUE]>>
                         /\ ~domains'[r.name].exists
                         /\ ~dirs'[r.name].exists
                  /\ (r.pc = "libvirt_destroy" /\ ~Passed(r2, "libvirt_destroy")) =>
                         /\ r2.pc = "done" /\ r2.result = "Err"
                         /\ dirs' = dirs
                         /\ ~Performed(r2, "remove_instance")
                  /\ (r.pc # "libvirt_destroy" /\ r2.result = "Err") =>
                         /\ r2.pc = "done"
                         /\ domains' = domains
                         /\ ~domains'[r.name].exists
                         /\ Times(r2, "libvirt_destroy") = 1
                         /\ Times(r2, "remove_instance") = 1]_vars

\* C6's case: the domain was running and has been stopped, the removal of
\* the directory failed, the directory is still there
C6_Witness ==
    \E c \in Calls :
        /\ call[c].op = "destroy_machine"
        /\ call[c].stopped
        /\ call[c].result = "Err"
        /\ Performed(call[c], "remove_instance")
        /\ ~domains[call[c].name].exists
        /\ dirs[call[c].name].exists

\* C7: a create_machine goes through its steps in the order import image,
\* allocate directory, create disk, (create descriptor,) attach interfaces,
\* synthesize network config, build configuration drive, attach drive and
\* storage, start domain: each effect is there only after its step, a step
\* is entered only after every earlier one went through, the domain is
\* started only after all of them, and a call that ends in an error ended at
\* the failed step and started no domain.
C7_FixedStepOrder ==
    \A c \in Calls :
        call[c].op = "create_machine" =>
            LET r == call[c]
                t == r.trail
                dir == dirs[r.name]
            IN  /\ Len(t) <= Len(CreateSteps)
                /\ \A i \in 1..Len(t) :
                      t[i].step = CreateSteps[i] /\ (i < Len(t) => t[i].ok)
                /\ (r.started \/ domains[r.name].exists) =>
                      /\ Len(t) = Len(CreateSteps)
                      /\ \A i \in 1..Len(t) : t[i].ok
                      /\ r.result = "Ok"
                /\ (Done(c) /\ r.result # "Ok") =>
                      /\ ~r.started
                      /\ ~domains[r.name].exists
                      /\ (t = <<>> \/ ~t[Len(t)].ok)
                /\ dir.exists <=> Passed(r, "new_instance")
                /\ dir.files["instance.qcow2"].exists <=> Passed(r, "create_instance_image")
                /\ r.d # NoBuilder => Passed(r, "DomainBuilder_new")
                /\ r.d.network_xml # <<>> => Passed(r, "attach_interfaces")
                /\ (dir.files["cidata-dir"].exists \/ dir.files["cidata.iso"].exists) =>
                      Passed(r, "build_net_config")
                /\ Passed(r, "configdrive_build") => dir.files["cidata.iso"].exists
                /\ r.d.block_device_xml # <<>> => Passed(r, "configdrive_build")

\* C7's case: the build of the configuration drive failed after the disk
\* was created; the call returned the error with no descriptor device
\* attached and no domain
C7_Witness ==
    \E c \in Calls :
        /\ call[c].op = "create_machine"
        /\ call[c].result = "Err"
        /\ Performed(call[c], "configdrive_build")
        /\ dirs[call[c].name].files["instance.qcow2"].exists
        /\ dirs[call[c].name].files["cidata.iso"].exists
        /\ call[c].d.block_device_xml = <<>>
        /\ ~domains[call[c].name].exists

\* the MAC address of the network-configuration entry under `key`: the
\* macaddress line of the match block that follows the key
EntryMac(netconf, key) ==
    LET at == CHOOSE j \in 1..Len(netconf) : netconf[j].ind = 2 /\ netconf[j].key = key
    IN  Unwrap(netconf[at + 2].val)

\* the keys of the entries of the network configuration
EntryKeys(netconf) ==
    {netconf[j].key : j \in {k \in 1..Len(netconf) : netconf[k].ind = 2}}

\* the interface device fragments of the descriptor with this MAC address
FragmentsWithMac(d, mac) == {k \in 1..Len(d.network_xml) : d.network_xml[k].mac = mac}

\* C8: after the interface and network-config steps of create_machine, for
\* every declared interface, whatever its kind string, the MAC address of
\* its network-configuration entry is the MAC address of exactly one
\* interface fragment of the domain descriptor, and the MAC address of every
\* fragment is that of an entry of the network configuration.
C8_MacJoinKey ==
    \A c \in Calls :
        (/\ call[c].op = "create_machine"
         /\ Passed(call[c], "build_net_config")
         /\ IsSome(call[c].machine.spec.nics))
        => LET r == call[c]
               nics == Unwrap(r.machine.spec.nics)
           IN  /\ \A i \in 1..Len(nics) :
                     /\ EtherKey(i - 1) \in EntryKeys(r.netconf)
                     /\ EntryMac(r.netconf, EtherKey(i - 1)) = nics[i].macaddress
                     /\ Cardinality(FragmentsWithMac(r.d, nics[i].macaddress)) = 1
               /\ \A k \in 1..Len(r.d.network_xml) :
                     \E key \in EntryKeys(r.netconf) :
                         EntryMac(r.netconf, key) = r.d.network_xml[k].mac

\* the storage fragments of the descriptor builder
DiskFragments(d) == SelectSeq(d.block_device_xml, LAMBDA dev : dev.elem = "disk")

\* the fragment add_file_backed_storage or add_block_backed_storage writes
\* for attachment i (from 0) of the list
StorageFragment(storages, i) ==
    Device("disk", IF storages[i + 1].kind = "File" THEN "file" ELSE "block",
           storages[i + 1].path, <<"v", "d", Letters[i + 2]>>, <<>>)

\* C9 as stated: a machine declaring 26 or more storage attachments fails at
\* the storage step with no storage fragment added to the descriptor builder.
C9_FailsBeforeAnyFragment ==
    \A c \in Calls :
        (/\ call[c].op = "create_machine"
         /\ IsSome(call[c].machine.spec.storage)
         /\ Len(Unwrap(call[c].machine.spec.storage)) >= MaxDriveIndex + 2
         /\ Performed(call[c], "attach_storage"))
        => /\ call[c].result = "panic"
           /\ DiskFragments(call[c].d) = <<>>

\* C9: a machine declaring 26 or more storage attachments fails at the
\* storage step, at attachment index 25 (from 0): the builder then holds the
\* configuration drive and the fragments of the first 25 attachments, vdb to
\* vdz in declaration order, and no domain is defined; a machine declaring
\* fewer goes through the step with all its attachments.
C9_FailsAtIndex25 ==
    \A c \in Calls :
        (/\ call[c].op = "create_machine"
         /\ IsSome(call[c].machine.spec.storage)
         /\ Performed(call[c], "attach_storage"))
        => LET r == call[c]
               storages == Unwrap(r.machine.spec.storage)
               attached == IF Len(storages) >= MaxDriveIndex + 2 THEN MaxDriveIndex + 1
                           ELSE Len(storages)
           IN  /\ Len(storages) >= MaxDriveIndex + 2 =>
                      /\ Done(c) /\ r.result = "panic"
                      /\ ~Passed(r, "attach_storage")
                      /\ ~r.started /\ ~domains[r.name].exists
               /\ Len(storages) < MaxDriveIndex + 2 => Passed(r, "attach_storage")
               /\ DiskFragments(r.d) = [k \in 1..attached |-> StorageFragment(storages, k - 1)]
               /\ r.d.block_device_xml[1].elem = "cdrom"

\* C9's case: 26 or more attachments declared, the step ended in the panic
\* with the fragment of attachment 24, vdz, the last in the builder
C9_Witness ==
    \E c \in Calls :
        /\ call[c].op = "create_machine"
        /\ IsSome(call[c].machine.spec.storage)
        /\ Len(Unwrap(call[c].machine.spec.storage)) >= MaxDriveIndex + 2
        /\ call[c].result = "panic"
        /\ Len(DiskFragments(call[c].d)) = MaxDriveIndex + 1
        /\ call[c].d.block_device_xml[Len(call[c].d.block_device_xml)].target = <<"v", "d", "z">>

\* the files packed into the configuration drive of the instance
PackedNames(dir) ==
    {dir.files["cidata.iso"].data[k].name : k \in 1..Len(dir.files["cidata.iso"].data)}

\* C10: build_net_config returns no bytes when the interface list is absent
\* and when it is present but empty, so in both cases create_machine gives
\* the configuration drive no network-config document.
C10_NoNetConfigWithoutInterfaces ==
    \A c \in Calls :
        (/\ call[c].op = "create_machine"
         /\ Passed(call[c], "build_net_config")
         /\ \/ ~IsSome(call[c].machine.spec.nics)
            \/ Unwrap(call[c].machine.spec.nics) = <<>>)
        => /\ call[c].netconf = <<>>
           /\ ~IsSome(call[c].builder.network_config)
           /\ "network-config" \notin PackedNames(dirs[call[c].name])

\* the lines of the network-configuration entry under `key`: those after
\* the key's line up to the next entry
EntryLines(netconf, key) ==
    LET at == CHOOSE j \in 1..Len(netconf) : netconf[j].ind = 2 /\ netconf[j].key = key
        later == {j \in (at + 1)..Len(netconf) : netconf[j].ind <= 2}
        last == IF later = {} THEN Len(netconf)
                ELSE (CHOOSE j \in later : \A k \in later : j <= k) - 1
    IN  SubSeq(netconf, at + 1, last)

\* the entry the documentation of the format gives an interface: matched by
\* its MAC address alone; dhcp6 for SLAAC; addresses, gateway4 and, with
\* nameservers declared, the nameservers block for a static address
ExpectedEntry(nic) ==
    <<Line(3, "match", None), Line(4, "macaddress", Some(nic.macaddress))>>
    \o (IF nic.address.kind = "IPv6SLAAC"
        THEN <<Line(3, "dhcp6", Some(TRUE))>>
        ELSE <<Line(3, "addresses", None), Line(3, "-", Some(nic.address.addr)),
               Line(3, "gateway4", Some(nic.address.gateway))>>
             \o (IF nic.address.nameservers # <<>>
                 THEN <<Line(3, "nameservers", None), Line(4, "addresses", None)>>
                      \o [k \in 1..Len(nic.address.nameservers) |->
                             Line(4, "-", Some(nic.address.nameservers[k]))]
                 ELSE <<>>))

\* C11: for a list of N > 0 interfaces build_net_config emits, under
\* version 2, exactly N ethernet entries, the i-th declared interface under
\* the key id<i>, matched by its MAC address only; a SLAAC interface has
\* dhcp6 true and no addresses, gateway4 or nameservers; a static interface
\* has addresses [addr], gateway4 and a nameservers block exactly when its
\* nameserver list is not empty; an absent field has no line at all.
C11_NetConfigEntries ==
    \A c \in Calls :
        (/\ call[c].op = "create_machine"
         /\ Passed(call[c], "build_net_config")
         /\ IsSome(call[c].machine.spec.nics)
         /\ Unwrap(call[c].machine.spec.nics) # <<>>)
        => LET netconf == call[c].netconf
               nics == Unwrap(call[c].machine.spec.nics)
           IN  /\ SubSeq(netconf, 1, 3) = <<Line(0, "network", None),
                                            Line(1, "version", Some(2)),
                                            Line(1, "ethernets", None)>>
               /\ netconf[4].ind = 2
               /\ Cardinality({j \in 1..Len(netconf) : netconf[j].ind = 2}) = Len(nics)
               /\ EntryKeys(netconf) = {EtherKey(i - 1) : i \in 1..Len(nics)}
               /\ \A i \in 1..Len(nics) :
                     EntryLines(netconf, EtherKey(i - 1)) = ExpectedEntry(nics[i])

\* C11's case: a list with a SLAAC interface and static interfaces with and
\* without nameservers has been serialized
C11_Witness ==
    \E c \in Calls :
        /\ call[c].op = "create_machine"
        /\ Passed(call[c], "build_net_config")
        /\ IsSome(call[c].machine.spec.nics)
        /\ LET nics == Unwrap(call[c].machine.spec.nics) IN
           /\ Len(nics) = MaxNics
           /\ \E i, j \in 1..Len(nics) :
                 /\ nics[i].address.kind = "IPv6SLAAC"
                 /\ nics[j].address.kind = "IPv4Static"
                 /\ nics[j].address.nameservers # <<>>
           /\ Len(call[c].netconf) > 3

(***************************************************************************)
(* The pure functions of api::models and mac, each called once on an       *)
(* argument of its domain.                                                 *)
(***************************************************************************)
\* the longest MAC string has this many colon-separated groups
MaxGroups == 7

\* size strings: a magnitude, a unit letter or none, and "i" or not
SizeStrings ==
    {m \o u \o b :
        m \in {<<>>, <<"0">>, <<"1">>, <<"1", "2">>, <<"1", "0", "0">>,
               <<"1", "8", "4", "4", "6", "7", "4", "4", "0", "7", "3", "7",
                 "0", "9", "5", "5", "1", "6", "1", "5">>,
               <<"x">>, <<"1", "x">>, <<"-", "1">>, <<"1", ".", "5">>},
        u \in {<<>>} \cup {<<l>> : l \in {"k", "K", "m", "M", "g", "G", "t", "T", "X", "B"}},
        b \in {<<>>, <<"i">>}}

\* MAC strings: up to MaxGroups groups, each two hex digits (lowercase or
\* uppercase), two letters that are no hex digits, or four hex digits
MacStrings ==
    {JoinColon(groups) :
        groups \in UNION {[1..n -> {<<"0", "0">>, <<"3", "E">>, <<"z", "z">>,
                                    <<"0", "0", "1", "6">>}] : n \in 1..MaxGroups}}

\* MAC addresses: octets at the ends of their range, around the flipped bit,
\* and those of the documented examples
Macs ==
    {<<o0, o1, o2, o3, o4, o5>> :
        o0 \in {0, 1, 2, 16, 254, 255}, o1 \in {0, 22}, o2 \in {0, 62},
        o3 \in {0, 35, 95}, o4 \in {0, 89, 93}, o5 \in {0, 15, 71}}

InitPure ==
    /\ repo = [hs \in Hashes |-> NoFile]
    /\ dirs = [id \in Names |-> NoDir]
    /\ domains = [id \in Names |-> NoDomain]
    /\ call = [c \in Calls |-> IdleCall]
    /\ \/ \E s \in SizeStrings : calc = [IdleCalc EXCEPT !.fn = "to_size", !.arg = s]
       \/ \E s \in MacStrings : calc = [IdleCalc EXCEPT !.fn = "from_str", !.arg = s]
       \/ \E m \in Macs, fn \in {"to_string", "to_ipv6_slaac_addr"} :
             calc = [IdleCalc EXCEPT !.fn = fn, !.arg = m]
       \/ calc = [IdleCalc EXCEPT !.fn = "gen"]

\* to_size(s): an overflowing multiplication is a panic in a debug build
\* and the wrapped value in a release build
call_to_size ==
    /\ calc.fn = "to_size" /\ ~calc.done
    /\ \E out \in IF to_size(calc.arg).kind = "overflow"
                  THEN {[kind |-> "panic", val |-> <<>>],
                        [kind |-> "Ok", val |-> to_size(calc.arg).val]}
                  ELSE {to_size(calc.arg)} :
          calc' = [calc EXCEPT !.done = TRUE, !.out = out]
    /\ UNCHANGED <<repo, dirs, domains, call>>

\* s.parse::<Mac>()
call_from_str ==
    /\ calc.fn = "from_str" /\ ~calc.done
    /\ calc' = [calc EXCEPT !.done = TRUE, !.out = Mac_from_str(calc.arg)]
    /\ UNCHANGED <<repo, dirs, domains, call>>

\* mac.to_string()
call_to_string ==
    /\ calc.fn = "to_string" /\ ~calc.done
    /\ calc' = [calc EXCEPT !.done = TRUE, !.out = MacToString(calc.arg)]
    /\ UNCHANGED <<repo, dirs, domains, call>>

\* mac.to_ipv6_slaac_addr()
call_to_ipv6_slaac_addr ==
    /\ calc.fn = "to_ipv6_slaac_addr" /\ ~calc.done
    /\ calc' = [calc EXCEPT !.done = TRUE, !.out = to_ipv6_slaac_addr(calc.arg)]
    /\ UNCHANGED <<repo, dirs, domains, call>>

\* Mac::gen(): gen_range(lo..hi) yields any value from lo up to hi - 1; the
\* random source is drawn at the ends and the middle of each range
call_gen ==
    LET gen_range(lo, hi) == {x \in {0, 1, 126, 127, 128, 253, 254, 255} : lo <= x /\ x < hi} IN
    /\ calc.fn = "gen" /\ ~calc.done
    /\ \E o3 \in gen_range(0, 127), o4 \in gen_range(0, 255), o5 \in gen_range(0, 255) :
          calc' = [calc EXCEPT !.done = TRUE, !.out = <<0, 22, 62, o3, o4, o5>>]
    /\ UNCHANGED <<repo, dirs, domains, call>>

NextPure ==
    \/ call_gen
    \/ call_to_size
    \/ call_from_str
    \/ call_to_string
    \/ call_to_ipv6_slaac_addr

SpecPure == InitPure /\ [][NextPure]_vars

(***************************************************************************)
(* Claims about the pure functions.                                        *)
(***************************************************************************)

\* C12: for every MAC o0..o5, to_ipv6_slaac_addr returns "fe80::" followed
\* by the hex groups [o0|0x02,o1], [o2,0xff], [0xfe,o3], [o4,o5] joined by
\* colons, the first group without its leading zero characters and never
\* empty, the later groups in full; 00:16:3e:23:59:0f gives
\* fe80::216:3eff:fe23:590f and 00:16:3e:5f:5d:47 gives fe80::216:3eff:fe5f:5d47.
C12_Ipv6FromMac ==
    (calc.fn = "to_ipv6_slaac_addr" /\ calc.done) =>
        LET o == calc.arg
            first == IF (o[1] \div 2) % 2 = 1 THEN o[1] ELSE o[1] + 2
            g1 == HexByte(first) \o HexByte(o[2])
            from == CHOOSE k \in 1..4 : g1[k] # "0" /\ \A j \in 1..(k - 1) : g1[j] = "0"
        IN  /\ \E k \in 1..4 : g1[k] # "0"
            /\ calc.out = <<"f", "e", "8", "0", ":", ":">>
                          \o SubSeq(g1, from, 4)
                          \o <<":">> \o HexByte(o[3]) \o HexByte(255)
                          \o <<":">> \o HexByte(254) \o HexByte(o[4])
                          \o <<":">> \o HexByte(o[5]) \o HexByte(o[6])
            /\ o = <<0, 22, 62, 35, 89, 15>> => calc.out = 
                    <<"f", "e", "8", "0", ":", ":", "2", "1", "6", ":", "3", "e", "f", "f", ":", "f", "e", "2", "3", ":", "5", "9", "0", "f">>
            /\ o = <<0, 22, 62, 95, 93, 71>> => calc.out = 
                    <<"f", "e", "8", "0", ":", ":", "2", "1", "6", ":", "3", "e", "f", "f", ":", "f", "e", "5", "f", ":", "5", "d", "4", "7">>

\* C12's case: the address of 00:16:3e:23:59:0f has been derived, one zero
\* stripped from its first group
C12_Witness ==
    /\ calc.fn = "to_ipv6_slaac_addr" /\ calc.done
    /\ calc.arg = <<0, 22, 62, 35, 89, 15>>
    /\ calc.out[7] = "2"

\* C13: parsing is the exact inverse of the colon-hex string form:
\* parse(to_string(m)) = m for every MAC m; to_string(parse(s)) = s for
\* every string s that parse accepts; and parse accepts no string with a
\* group that is not valid hex or with a seventh group.
C13_ParseInverse ==
    /\ (calc.fn = "to_string" /\ calc.done) =>
           Mac_from_str(calc.out) = [kind |-> "Ok", val |-> calc.arg]
    /\ (calc.fn = "from_str" /\ calc.done /\ calc.out.kind = "Ok") =>
           /\ MacToString(calc.out.val) = calc.arg
           /\ \A i \in 1..Len(Split(calc.arg)) : IsSome(HexDecode(Split(calc.arg)[i]))
           /\ Len(Split(calc.arg)) < 7

\* C14: for every magnitude n and every suffix among k, K, m, M, g, G, t, T,
\* to_size returns n * 1000^p for the plain suffix and n * 1024^p for the
\* suffix followed by "i", with p = 1 for k, 2 for m, 3 for g and 4 for t,
\* whenever that value fits in 64 bits.
C14_ToSizeScales ==
    (calc.fn = "to_size" /\ calc.done) =>
        LET s == calc.arg
            binary == s # <<>> /\ s[Len(s)] = "i"
            body == IF binary THEN SubSeq(s, 1, Len(s) - 1) ELSE s
            num == SubSeq(body, 1, Len(body) - 1)
            unit == body[Len(body)]
            p == CASE unit \in {"k", "K"} -> 1
                   [] unit \in {"m", "M"} -> 2
                   [] unit \in {"g", "G"} -> 3
                   [] unit \in {"t", "T"} -> 4
            value == MulPow(DecimalVal(num), IF binary THEN 1024 ELSE 1000, p)
        IN  (/\ Len(body) >= 2
             /\ unit \in {"k", "K", "m", "M", "g", "G", "t", "T"}
             /\ \A i \in 1..Len(num) : IsDigit(num[i])
             /\ FitsU64(value))
            => calc.out = [kind |-> "Ok", val |-> value]

\* C15: to_size returns an error, not a value and not a crash, for every
\* size string whose unit suffix is not one of k, K, m, M, g, G, t, T with
\* or without a following "i" (a string without suffix and one with an
\* unknown letter included), and for every string whose magnitude is not a
\* decimal number.
C15_ToSizeRejects ==
    (calc.fn = "to_size" /\ calc.done) =>
        LET s == calc.arg
            binary == s # <<>> /\ s[Len(s)] = "i"
            body == IF binary THEN SubSeq(s, 1, Len(s) - 1) ELSE s
            suffixed == body # <<>> /\ body[Len(body)] \in {"k", "K", "m", "M", "g", "G", "t", "T"}
            num == IF suffixed THEN SubSeq(body, 1, Len(body) - 1) ELSE body
            decimal == num # <<>> /\ \A i \in 1..Len(num) : IsDigit(num[i])
        IN  (~suffixed \/ ~decimal) => calc.out.kind = "Err"

(***************************************************************************)
(* Concurrent importers: add_image invocations interleave step by step.    *)
(***************************************************************************)
NextRepoRace ==
    \E c \in Calls :
        \/ \E url \in Urls, hash \in Hashes : call_add_image(c, url, hash)
        \/ add_image_step(c)

SpecRepoRace == InitRepo /\ [][NextRepoRace]_vars

\* C16: when two add_image calls for the same digest run concurrently, a
\* call that returns Ok(D) does so only when the file under D is complete
\* and has digest D, and a file for which one importer has returned Ok(D) is
\* not afterwards deleted or overwritten by the other importer.
C16_NoPartialFileObserved ==
    [][\A c \in Calls :
          LET D == call[c].hash IN
          /\ (call[c].op = "add_image" /\ Running(c) /\ call'[c].result = "Ok")
                => (repo'[D].exists /\ DigestOfFile(repo'[D]) = D)
          /\ (call[c].op = "add_image" /\ call[c].result = "Ok")
                => repo'[D] = repo[D]]_vars

\* C17: libvirt::destroy(name) returns Ok without issuing a stop request
\* when the hypervisor reports that no domain of that name exists, returns
\* the error for any other lookup failure, and otherwise issues exactly one
\* stop request for that domain and returns its outcome.
C17_DestroyLookup ==
    [][\A c \in Calls :
          (call[c].pc = "libvirt_destroy" /\ call'[c] # call[c]) =>
              LET r == call'[c]
                  ok == r.pc = "read_dir" /\ Passed(r, "libvirt_destroy")
                  err == r.pc = "done" /\ r.result = "Err"
                  requests == r.stop_requests - call[c].stop_requests
              IN  /\ r.lookup = "Domain not found"
                        => (ok /\ requests = 0 /\ domains' = domains)
                  /\ r.lookup = "error" => (err /\ requests = 0 /\ domains' = domains)
                  /\ r.lookup = "found"
                        => /\ requests = 1
                           /\ \A id \in Names \ {r.name} : domains'[id] = domains[id]
                           /\ IF r.stopped THEN ok /\ ~domains'[r.name].exists
                              ELSE err /\ domains' = domains
                  /\ (~domains[call[c].name].exists /\ r.lookup # "none")
                        => r.lookup \in {"Domain not found", "error"}]_vars

\* C17's case: a domain that was started is looked up, found, and stopped by
\* the one stop request of the call
C17_Witness ==
    \E c \in Calls :
        /\ call[c].op = "destroy_machine"
        /\ call[c].lookup = "found"
        /\ call[c].stop_requests = 1
        /\ call[c].stopped
        /\ ~domains[call[c].name].exists
        /\ Passed(call[c], "libvirt_destroy")

\* C18: VMStore::remove_instance(name) deletes every entry directly inside
\* the instance directory and then the directory itself; when it returns Ok
\* the instance directory no longer exists; when any removal fails it returns
\* that error at once, entries already removed stay removed, and the
\* directory itself is not removed.
C18_RemoveInstance ==
    [][\A c \in Calls :
          (call[c].pc \in {"remove_file", "remove_dir"} /\ call'[c] # call[c]) =>
              LET r == call[c]
                  dir == dirs[r.name]
                  failed == call'[c].pc = "done" /\ call'[c].result = "Err"
              IN  /\ \A id \in Names \ {r.name} : dirs'[id] = dirs[id]
                  /\ \A e \in EntryNames :
                        (dir.exists /\ ~dir.files[e].exists)
                            => (dirs'[r.name].exists => ~dirs'[r.name].files[e].exists)
                  /\ failed => (dir.exists /\ dirs' = dirs)
                  /\ (r.pc = "remove_file" /\ ~failed)
                        => \E e \in r.entries :
                              /\ dir.files[e].exists
                              /\ dirs'[r.name].exists
                              /\ ~dirs'[r.name].files[e].exists
                              /\ call'[c].entries = r.entries \ {e}
                              /\ call'[c].pc = IF r.entries = {e} THEN "remove_dir"
                                               ELSE "remove_file"
                  /\ (r.pc = "remove_dir" /\ ~failed)
                        => /\ read_dir(dir) = {}
                           /\ ~dirs'[r.name].exists
                           /\ call'[c].result = "Ok"]_vars

\* C18's case: a removal failed after the disk image had been removed: the
\* call returned the error, the image stays removed, and the directory and
\* its other entry are still there
C18_Witness ==
    \E c \in Calls :
        /\ call[c].op = "destroy_machine"
        /\ Done(c)
        /\ call[c].result = "Err"
        /\ Passed(call[c], "libvirt_destroy")
        /\ dirs[call[c].name].exists
        /\ ~dirs[call[c].name].files["instance.qcow2"].exists
        /\ dirs[call[c].name].files["cidata.iso"].exists

\* C19: for a machine with at most 25 storage attachments, the i-th declared
\* attachment (i counted from 0) is given target device name "vd" followed
\* by the letter at offset i from 'b', so attachments get vdb, vdc, ... in
\* declaration order; all target names in the rendered descriptor (boot disk
\* vda, the extra attachments, and the configuration-drive CD-ROM hdc) are
\* pairwise distinct.
C19_TargetNames ==
    \A c \in Calls :
        (/\ call[c].op = "create_machine"
         /\ Performed(call[c], "attach_storage")
         /\ IsSome(call[c].machine.spec.storage)
         /\ Len(Unwrap(call[c].machine.spec.storage)) <= MaxDriveIndex + 1)
        => LET r == call[c]
               storages == Unwrap(r.machine.spec.storage)
               disks == SelectSeq(r.d.block_device_xml, LAMBDA dev : dev.elem = "disk")
               named == SelectSeq(render(r.d).devices, LAMBDA dev : dev.target # <<>>)
           IN  /\ Len(disks) = Len(storages)
               /\ \A i \in 0..(Len(storages) - 1) :
                     /\ disks[i + 1].source = storages[i + 1].path
                     /\ disks[i + 1].target = <<"v", "d", Letters[2 + i]>>
               /\ Len(named) = Len(storages) + 2
               /\ \E k \in 1..Len(named) : named[k].target = <<"v", "d", "a">>
               /\ \E k \in 1..Len(named) : named[k].target = <<"h", "d", "c">>
               /\ \A j, k \in 1..Len(named) : named[j].target = named[k].target => j = k
               /\ r.started => domains[r.name].xml = render(r.d)

\* C19's case: a domain was started with 25 storage attachments, the last
\* of them vdz
C19_Witness ==
    \E c \in Calls :
        /\ call[c].op = "create_machine"
        /\ call[c].started
        /\ IsSome(call[c].machine.spec.storage)
        /\ Len(Unwrap(call[c].machine.spec.storage)) = MaxDriveIndex + 1
        /\ \E k \in 1..Len(domains[call[c].name].xml.devices) :
              domains[call[c].name].xml.devices[k].target = <<"v", "d", "z">>

\* C20: after configdrive Builder::build(base_dir) returns Ok, the staging
\* subdirectory base_dir/cidata-dir and every file staged in it (meta-data,
\* user-data, network-config) no longer exist, the returned path is
\* base_dir/cidata.iso which lies outside the staging subdirectory, and
\* cleanup has not removed that ISO.
C20_BuildLeavesOnlyIso ==
    [][\A c \in Calls :
          (call[c].pc = "cd_cleanup" /\ Passed(call'[c], "configdrive_build")) =>
              LET r == call'[c]
                  before == dirs[r.name]
                  after == dirs'[r.name]
              IN  /\ after.exists
                  /\ ~after.files["cidata-dir"].exists
                  /\ \A f \in StagedNames : ~after.files[f].exists
                  /\ r.cd_path = Some(Unwrap(r.instance_dir) \o "/cidata.iso")
                  /\ "cidata.iso" \notin StagedNames \cup {"cidata-dir"}
                  /\ after.files["cidata.iso"].exists
                  /\ after.files["cidata.iso"] = before.files["cidata.iso"]
                  /\ after.files["instance.qcow2"] = before.files["instance.qcow2"]]_vars

\* C20's case: a build that staged all three files has returned Ok; they and
\* the staging directory are gone, and the ISO holding the three is there
C20_Witness ==
    \E c \in Calls :
        /\ call[c].op = "create_machine"
        /\ Passed(call[c], "configdrive_build")
        /\ IsSome(call[c].nc_path)
        /\ IsSome(call[c].cd_path)
        /\ ~dirs[call[c].name].files["cidata-dir"].exists
        /\ \A f \in StagedNames : ~dirs[call[c].name].files[f].exists
        /\ dirs[call[c].name].files["cidata.iso"].exists
        /\ Len(dirs[call[c].name].files["cidata.iso"].data) = 3

\* C21: every MAC returned by Mac::gen has the first three octets 00:16:3e,
\* and the high bit of its second-to-last octet is clear, for every outcome
\* of the random source.
C21_GenPrefixAndHighBit ==
    (calc.fn = "gen" /\ calc.done) =>
        /\ Len(calc.out) = 6
        /\ SubSeq(calc.out, 1, 3) = <<0, 22, 62>>
        /\ calc.out[Len(calc.out) - 1] < 128

(***************************************************************************)
(* A DomainBuilder used on its own: any sequence of add_* calls, with      *)
(* render() calls between them.  calc.arg is the log of the add_* calls    *)
(* made, calc.out the builder and the documents render() has returned      *)
(* since the last add_* call.                                              *)
(***************************************************************************)
MaxDevices == 3

InitBuilder ==
    /\ repo = [hs \in Hashes |-> NoFile]
    /\ dirs = [id \in Names |-> NoDir]
    /\ domains = [id \in Names |-> NoDomain]
    /\ call = [c \in Calls |-> IdleCall]
    /\ calc = [fn |-> "DomainBuilder", arg |-> <<>>, done |-> FALSE,
               out |-> [d |-> DomainBuilder_new("vm1", 2, <<512>>, "/srv/vm1/instance.qcow2"),
                        docs |-> <<>>]]

\* one of the five &mut self methods is called
call_add_device ==
    LET d == calc.out.d
        added(method, a, b, next) ==
            calc' = [calc EXCEPT !.arg = Append(@, [method |-> method, a |-> a, b |-> b]),
                                 !.out = [d |-> next, docs |-> <<>>]]
    IN
    /\ calc.fn = "DomainBuilder"
    /\ Len(calc.arg) < MaxDevices
    /\ UNCHANGED <<repo, dirs, domains, call>>
    /\ \/ \E name \in {"br0", "br1"}, m \in MacPool :
             added("add_bridged_interface", name, MacToString(m),
                   add_bridged_interface(d, name, MacToString(m)))
       \/ \E m \in MacPool :
             added("add_macvtap_interface", "eth0", MacToString(m),
                   add_macvtap_interface(d, "eth0", MacToString(m)))
       \/ \E path \in {"/srv/disk1", "/srv/disk2"} :
             added("add_file_backed_storage", path, target_name(Len(d.block_device_xml)),
                   add_file_backed_storage(d, path, target_name(Len(d.block_device_xml))))
       \/ added("add_block_backed_storage", "/dev/sdb", target_name(Len(d.block_device_xml)),
                add_block_backed_storage(d, "/dev/sdb", target_name(Len(d.block_device_xml))))
       \/ added("add_cdrom_from_iso", "/srv/vm1/cidata.iso", <<>>,
                add_cdrom_from_iso(d, "/srv/vm1/cidata.iso"))

\* render(&self) is called and returns its document
call_render ==
    /\ calc.fn = "DomainBuilder"
    /\ Len(calc.out.docs) < 2
    /\ calc' = [calc EXCEPT !.out.docs = Append(@, render(calc.out.d))]
    /\ UNCHANGED <<repo, dirs, domains, call>>

NextBuilder ==
    \/ call_add_device
    \/ call_render

SpecBuilder == InitBuilder /\ [][NextBuilder]_vars

\* C22 as stated: the device fragments appear in render()'s output in the
\* order the add_* calls were made, whatever their kinds, and render() does
\* not change the builder, so two consecutive render() calls return
\* identical documents.
C22_CallOrder ==
    calc.fn = "DomainBuilder" =>
        LET fragment(k) ==
                CASE k.method = "add_bridged_interface" -> Device("interface", "bridge", k.a, <<>>, k.b)
                  [] k.method = "add_macvtap_interface" -> Device("interface", "direct", k.a, <<>>, k.b)
                  [] k.method = "add_file_backed_storage" -> Device("disk", "file", k.a, k.b, <<>>)
                  [] k.method = "add_block_backed_storage" -> Device("disk", "block", k.a, k.b, <<>>)
                  [] k.method = "add_cdrom_from_iso" -> Device("cdrom", "file", k.a, <<"h", "d", "c">>, <<>>)
            fixed == {"serial", "input", "memballoon"}
        IN  \A i \in 1..Len(calc.out.docs) :
               /\ calc.out.docs[i] = calc.out.docs[1]
               /\ SelectSeq(Tail(calc.out.docs[i].devices), LAMBDA dev : dev.elem \notin fixed)
                     = [k \in 1..Len(calc.arg) |-> fragment(calc.arg[k])]

\* C22: the rendered descriptor preserves call order within each of its two
\* groups: after the boot disk come the fragments of the storage and CD-ROM
\* calls in the order those calls were made, then the serial and input
\* devices, then the fragments of the interface calls in the order those
\* calls were made, whatever the order between calls of the two groups; and
\* render() does not change the builder, so two consecutive render() calls
\* return identical documents.
C22_OrderWithinGroup ==
    /\ [](calc.fn = "DomainBuilder" =>
            LET fragment(k) ==
                    CASE k.method = "add_bridged_interface" -> Device("interface", "bridge", k.a, <<>>, k.b)
                      [] k.method = "add_macvtap_interface" -> Device("interface", "direct", k.a, <<>>, k.b)
                      [] k.method = "add_file_backed_storage" -> Device("disk", "file", k.a, k.b, <<>>)
                      [] k.method = "add_block_backed_storage" -> Device("disk", "block", k.a, k.b, <<>>)
                      [] k.method = "add_cdrom_from_iso" -> Device("cdrom", "file", k.a, <<"h", "d", "c">>, <<>>)
                interfaces == {"add_bridged_interface", "add_macvtap_interface"}
                made == [k \in 1..Len(calc.arg) |-> fragment(calc.arg[k])]
                block == SelectSeq(made, LAMBDA dev : dev.elem \in {"disk", "cdrom"})
                network == SelectSeq(made, LAMBDA dev : dev.elem = "interface")
            IN  \A i \in 1..Len(calc.out.docs) :
                   /\ calc.out.docs[i] = calc.out.docs[1]
                   /\ Head(calc.out.docs[i].devices).target = <<"v", "d", "a">>
                   /\ SubSeq(calc.out.docs[i].devices, 2, 1 + Len(block)) = block
                   /\ SubSeq(calc.out.docs[i].devices, 5 + Len(block),
                             4 + Len(block) + Len(network)) = network
                   /\ Len(calc.out.docs[i].devices) = 5 + Len(made))
    /\ [][(calc.fn = "DomainBuilder" /\ Len(calc'.out.docs) > Len(calc.out.docs))
             => calc'.out.d = calc.out.d /\ calc'.arg = calc.arg]_vars

\* C22's case: an interface was added before a storage device and a CD-ROM,
\* and render() has been called twice since
C22_Witness ==
    /\ calc.fn = "DomainBuilder"
    /\ Len(calc.arg) = MaxDevices
    /\ calc.arg[1].method = "add_bridged_interface"
    /\ calc.arg[2].method = "add_file_backed_storage"
    /\ calc.arg[3].method = "add_cdrom_from_iso"
    /\ Len(calc.out.docs) = 2

\* C23: create_machine never removes the instance directory it allocated:
\* on every failure after new_instance succeeded (size-string error, disk
\* creation, configuration-drive build, drive-letter exhaustion, domain
\* start) the instance directory remains, so a later create_machine for the
\* same name fails at allocation until destroy_machine has removed the
\* directory.
C23_CreateKeepsDirectory ==
    /\ [][\A c \in Calls :
             (call[c].op = "create_machine" /\ call'[c] # call[c])
                 => \A id \in Names : dirs[id].exists => dirs'[id].exists]_vars
    /\ [](\A c \in Calls :
             (/\ call[c].op = "create_machine"
              /\ Done(c)
              /\ IsSome(call[c].instance_dir)
              /\ call[c].result # "Ok"
              /\ \A e \in Calls :
                    e > c => ~(/\ call[e].op = "destroy_machine"
                               /\ call[e].name = call[c].name
                               /\ Passed(call[e], "remove_instance")))
             => /\ dirs[call[c].name].exists
                /\ \A e \in Calls :
                      (/\ e > c
                       /\ call[e].op = "create_machine"
                       /\ call[e].name = call[c].name
                       /\ Performed(call[e], "new_instance"))
                      => /\ ~Passed(call[e], "new_instance")
                         /\ call[e].result = "Err"
                         /\ ~IsSome(call[e].instance_dir))

\* C23's case: a create_machine ended in the drive-letter panic with its
\* directory allocated, and the next create_machine for the name failed at
\* allocation
C23_Witness ==
    \E c, e \in Calls :
        /\ c < e
        /\ call[c].op = "create_machine" /\ call[e].op = "create_machine"
        /\ call[c].name = call[e].name
        /\ IsSome(call[c].instance_dir)
        /\ call[c].result = "panic"
        /\ Performed(call[c], "attach_storage")
        /\ Done(e)
        /\ Performed(call[e], "new_instance")
        /\ ~Passed(call[e], "new_instance")
        /\ dirs[call[c].name].exists

\* C24: from every state in which create_machine can terminate after
\* allocating the instance directory (success, or failure at any later step
\* including a configuration-drive build that leaves its staging
\* subdirectory behind), a subsequent destroy_machine for that name whose
\* domain stop succeeds removes the instance directory completely and
\* returns Ok.
C24_DestroyRecovers ==
    \A c, e \in Calls :
        (/\ call[c].op = "create_machine"
         /\ IsSome(call[c].instance_dir)
         /\ e = c + 1
         /\ call[e].op = "destroy_machine"
         /\ call[e].name = call[c].name
         /\ Done(e)
         /\ Passed(call[e], "libvirt_destroy"))
        => \/ call[e].result = "Ok" /\ ~dirs[call[e].name].exists
           \/ \* the file system refused the removal of a plain file or of
              \* the emptied directory
              /\ dirs[call[e].name].exists
              /\ ~dirs[call[e].name].files["cidata-dir"].exists

(***************************************************************************)
(* api::create_from_yaml.  calc.arg is the document, the sequence of its   *)
(* resources; the create_machine of resource number c runs as invocation   *)
(* c; calc.out is the position of create_from_yaml and what it returned.   *)
(***************************************************************************)
InitYaml ==
    /\ repo = [hs \in Hashes |-> NoFile]
    /\ dirs = [id \in Names |-> NoDir]
    /\ domains = [id \in Names |-> NoDomain]
    /\ call = [c \in Calls |-> IdleCall]
    /\ \E n \in 0..MaxCalls :
       \E yaml \in [1..n -> [kind : {"Machine"}, machine : HostMachines \cup FailingMachines]
                            \cup {[kind |-> "Pod", machine |-> NoMachine]}] :
          calc = [fn |-> "create_from_yaml", arg |-> yaml, done |-> FALSE,
                  out |-> [pc |-> "resources_from_yaml", result |-> "none"]]

\* resources_from_yaml(yaml).unwrap(): a document of an unknown kind does
\* not parse and unwrap() panics; then HostManager::new()?
create_from_yaml_open ==
    /\ calc.fn = "create_from_yaml" /\ ~calc.done
    /\ calc.out.pc = "resources_from_yaml"
    /\ UNCHANGED <<repo, dirs, domains, call>>
    /\ IF \E k \in 1..Len(calc.arg) : calc.arg[k].kind # "Machine"
       THEN calc' = [calc EXCEPT !.done = TRUE, !.out = [pc |-> "done", result |-> "panic"]]
       ELSE \/ calc' = [calc EXCEPT !.out.pc = "for"]
            \/ \* the instance or image store cannot be opened
               calc' = [calc EXCEPT !.done = TRUE, !.out = [pc |-> "done", result |-> "Err"]]

\* the loop that goes on to the next resource whatever create_machine returned
create_from_yaml_next_continues(c) ==
    /\ calc.fn = "create_from_yaml" /\ ~calc.done
    /\ calc.out.pc = "for"
    /\ c <= Len(calc.arg)
    /\ \A d \in Calls : d < c => Done(d)
    /\ call_create_machine(c, calc.arg[c].machine)

\* for res in resources: hm.create_machine(&mut m) is called for the next
\* resource once every one before it has returned Ok
create_from_yaml_next(c) ==
    /\ calc.fn = "create_from_yaml" /\ ~calc.done
    /\ calc.out.pc = "for"
    /\ c <= Len(calc.arg)
    /\ \A d \in Calls : d < c => (Done(d) /\ call[d].result = "Ok")
    /\ call_create_machine(c, calc.arg[c].machine)

\* `?` on the create_machine that did not return Ok (a panic unwinds through
\* the loop), or Ok(()) after the last resource
create_from_yaml_return ==
    /\ calc.fn = "create_from_yaml" /\ ~calc.done
    /\ calc.out.pc = "for"
    /\ UNCHANGED <<repo, dirs, domains, call>>
    /\ \/ \E c \in Calls :
             /\ Done(c) /\ call[c].result # "Ok"
             /\ calc' = [calc EXCEPT !.done = TRUE,
                                     !.out = [pc |-> "done", result |-> call[c].result]]
       \/ /\ \A c \in 1..Len(calc.arg) : Done(c) /\ call[c].result = "Ok"
          /\ calc' = [calc EXCEPT !.done = TRUE, !.out = [pc |-> "done", result |-> "Ok"]]

NextYaml ==
    \/ create_from_yaml_open
    \/ \E c \in Calls : create_from_yaml_next(c)
    \/ \E c \in Calls : create_machine_step(c)
    \/ create_from_yaml_return

SpecYaml == InitYaml /\ [][NextYaml]_vars

\* C25: create_from_yaml provisions the machines of a document one at a time
\* in document order and stops at the first create_machine failure:
\* machines before the failing one stay created (no rollback), the failing
\* machine's error is returned (its panic goes on through create_from_yaml),
\* and no machine after it is attempted.
C25_StopsAtFirstFailure ==
    calc.fn = "create_from_yaml" =>
        /\ \A c \in Calls :
              call[c].op # "idle" =>
                  /\ call[c].op = "create_machine"
                  /\ c <= Len(calc.arg)
                  /\ call[c].machine = calc.arg[c].machine
                  /\ \A d \in Calls :
                        d < c => /\ Done(d) /\ call[d].result = "Ok"
                                 /\ domains[call[d].name].exists
                                 /\ domains[call[d].name].xml = render(call[d].d)
                                 /\ dirs[call[d].name].exists
                                 /\ dirs[call[d].name].files["instance.qcow2"].exists
        /\ \A c \in Calls :
              (calc.done /\ Done(c) /\ call[c].result # "Ok")
                  => /\ calc.out.result = call[c].result
                     /\ \A e \in Calls : e > c => call[e].op = "idle"
        /\ (calc.done /\ calc.out.result = "Ok")
              => \A c \in 1..Len(calc.arg) : Done(c) /\ call[c].result = "Ok"
        /\ (calc.done /\ \A c \in Calls : call[c].op = "idle")
              => (calc.arg = <<>> \/ calc.out.result # "Ok")

\* C25's case: the first machine of the document was created, the second
\* failed, and create_from_yaml returned that error with the first machine's
\* domain and directory in place
C25_Witness ==
    /\ calc.fn = "create_from_yaml"
    /\ calc.done
    /\ Len(calc.arg) >= 2
    /\ call[1].result = "Ok"
    /\ Done(2) /\ call[2].result = "Err"
    /\ calc.out.result = "Err"
    /\ domains[call[1].name].exists
    /\ dirs[call[1].name].exists

=============================================================================
